---- MODULE Spec2Model ----
(***************************************************************************)
(* A model of aiotone's FM synthesizer (src/aiotone/fmsynth.py): the voice *)
(* allocator (Synthesizer), the voices (PhaseModulator), their operators   *)
(* (Operator) and the resettable stereo mixer (stereo_out / _stereo_out).  *)
(*                                                                         *)
(* Representation:                                                         *)
(*   - a frequency is an integer number of millihertz;                     *)
(*   - a volume (velocity / 127) is its numerator, in 127ths;              *)
(*   - a detune rate is an integer number of thousandths;                  *)
(*   - an address id(self.voices) is kept as what the code does with it:   *)
(*     whether it equals the address of the current list self.voices;      *)
(*   - voice and LRU positions are 1-based (Python's are 0-based).         *)
(***************************************************************************)
EXTENDS Integers, Sequences, FiniteSets, TLC

(* ---------------------------------------------------------------- bounds *)

\* Synthesizer.polyphony, a configuration value. reset_voices divides by
\* polyphony - 1, so a synthesizer exists only for polyphony >= 2.
Polyphony == 2

\* Synthesizer.sample_rate, the `sample-rate` of the configuration file.
SampleRate == 1000

\* The blocks of less than MAX_BUFFER frames that the audio driver asks
\* for in one run.
MaxShortBlocks == 2

\* The note_on messages that arrive while the mixer renders.
MaxNoteOns == 2

(* ------------------------------------------------------------- constants *)

MAX_BUFFER == 2400

\* fmsynth.py: INT16_MAXVALUE = 32767
INT16_MAXVALUE == 32767

\* midi.py: status bytes (channel 1) and controller numbers
NOTE_OFF == 128
NOTE_ON == 144
CONTROL_CHANGE == 176
SUSTAIN_PEDAL == 64
ALL_NOTES_OFF == 123
ALL_SOUND_OFF == 120
MOD_WHEEL == 1
FOOT_PEDAL == 4
EXPRESSION_PEDAL == 11
START == 250
STOP == 252
CLOCK == 248
POLY_AFTERTOUCH == 160
PROGRAM_CHANGE == 192
PITCH_BEND == 224
BANK_SELECT == 0
BANK_SELECT_LSB == 32
PORTAMENTO == 65
PORTAMENTO_TIME == 5

\* Synthesizer.note_off: `if self._sustain > 32`.
SustainThreshold == 32

\* PhaseModulator.algorithm (the default; the Synthesizer never sets it).
Algorithm == 3

\* PhaseModulator.rate1, rate2, rate3, in thousandths.
Rate1 == 1003
Rate2 == 1000
Rate3 == 19000

\* Operator.pitch's default, 440.0 Hz, in millihertz.
DefaultPitch == 440000

(* ---------------------------------------------------------------- inputs *)

\* MIDI notes sent to the synthesizer.
Notes == {60, 64}

\* MIDI velocities of note_on / note_off.
Velocities == {100}

\* Values of the sustain pedal controller (CC 64).
SustainValues == {0, 64}

\* Frame counts the audio driver asks for.
FrameCounts == {MAX_BUFFER}

Voices == 1 .. Polyphony

Min(a, b) == IF a < b THEN a ELSE b

(* ----------------------------------------------------------- notes.py *)

\* note_to_freq: 440 * 2 ** ((n - 69) / 12) for the notes 12..119, in
\* millihertz, each rounded to the nearest.
NoteFreqs ==
  <<16352, 17324, 18354, 19445, 20602, 21827,
    23125, 24500, 25957, 27500, 29135, 30868,
    32703, 34648, 36708, 38891, 41203, 43654,
    46249, 48999, 51913, 55000, 58270, 61735,
    65406, 69296, 73416, 77782, 82407, 87307,
    92499, 97999, 103826, 110000, 116541, 123471,
    130813, 138591, 146832, 155563, 164814, 174614,
    184997, 195998, 207652, 220000, 233082, 246942,
    261626, 277183, 293665, 311127, 329628, 349228,
    369994, 391995, 415305, 440000, 466164, 493883,
    523251, 554365, 587330, 622254, 659255, 698456,
    739989, 783991, 830609, 880000, 932328, 987767,
    1046502, 1108731, 1174659, 1244508, 1318510, 1396913,
    1479978, 1567982, 1661219, 1760000, 1864655, 1975533,
    2093005, 2217461, 2349318, 2489016, 2637020, 2793826,
    2959955, 3135963, 3322438, 3520000, 3729310, 3951066,
    4186009, 4434922, 4698636, 4978032, 5274041, 5587652,
    5919911, 6271927, 6644875, 7040000, 7458620, 7902133>>

\* The dictionary with one key more, C9.
note_to_freq_to_C9 ==
  [n \in 12 .. 120 |-> IF n < 120 THEN NoteFreqs[n - 11] ELSE 8372018]

\* note_to_freq, the dict: its keys are the notes C0..B0 and their eight
\* octaves, 12..119; note_to_freq[note] for any other note is KeyError.
note_to_freq == [n \in 12 .. 119 |-> NoteFreqs[n - 11]]

\* `pitch = note_to_freq[note]` does not raise KeyError.
HasFreq(note) == note \in DOMAIN note_to_freq

(* ------------------------------------------------------------ Envelope *)
(* aiotone/fm.pyx is not part of the sources: the envelope follows the     *)
(* description of its operations (stage machine, one tick per sample).     *)

NewEnvelope == [stage |-> "Idle", samples_in_stage |-> 0]

\* Envelope.reset(): restart the attack.
EnvReset(env) == [stage |-> "Attack", samples_in_stage |-> 0]

\* Envelope.release(): enter the release stage whatever the current one is.
EnvRelease(env) == [stage |-> "Release", samples_in_stage |-> 0]

EnvIsSilent(env) == env.stage = "Idle"

\* The stage after `stage` and the samples `stage` lasts, for an envelope
\* with attack a, decay d and release r.
EnvNextStage(stage) ==
  CASE stage = "Attack" -> "Decay"
    [] stage = "Decay" -> "Sustain"
    [] stage = "Release" -> "Idle"
    [] OTHER -> stage

EnvStageLen(stage, adr) ==
  CASE stage = "Attack" -> adr[1]
    [] stage = "Decay" -> adr[2]
    [] stage = "Release" -> adr[3]
    [] OTHER -> 0

\* Envelope.advance(): one sample tick.
EnvAdvance(env, adr) ==
  IF env.stage \in {"Idle", "Sustain"}
    THEN env
    ELSE IF env.samples_in_stage + 1 >= EnvStageLen(env.stage, adr)
           THEN [stage |-> EnvNextStage(env.stage), samples_in_stage |-> 0]
           ELSE [env EXCEPT !.samples_in_stage = @ + 1]

\* n calls of Envelope.advance(), stage by stage.
RECURSIVE EnvAdvanceN(_, _, _)
EnvAdvanceN(env, adr, n) ==
  IF n = 0 \/ env.stage \in {"Idle", "Sustain"}
    THEN env
    ELSE LET left == EnvStageLen(env.stage, adr) - env.samples_in_stage
         IN IF n < left
              THEN [env EXCEPT !.samples_in_stage = @ + n]
              ELSE IF left <= 1
                     THEN EnvAdvanceN(EnvAdvance(env, adr), adr, n - 1)
                     ELSE EnvAdvanceN(
                            [stage |-> EnvNextStage(env.stage),
                             samples_in_stage |-> 0],
                            adr, n - left)

(* ------------------------------------------------------------ Operator *)

\* The <<attack, decay, release>> samples of the envelopes that
\* PhaseModulator.reset_operators gives op1, op2 and op3: a = 48,
\* d = 3 * sample_rate, r = int(0.25 * sample_rate) for op1, and so on.
Adr1 == <<48, 3 * SampleRate, SampleRate \div 4>>
Adr2 == <<48, 4 * SampleRate, SampleRate \div 2>>
Adr3 == <<48, SampleRate \div 9, SampleRate \div 9>>

\* Operator(...): a new operator, as the dataclass defaults make it.
NewOperator ==
  [pitch |-> DefaultPitch, current_velocity |-> 0, reset |-> FALSE,
   envelope |-> NewEnvelope]

\* Operator.note_on
OperatorNoteOn(op, pitch, volume) ==
  [op EXCEPT !.reset = TRUE, !.pitch = pitch, !.current_velocity = volume]

\* Operator.note_off
OperatorNoteOff(op) == [op EXCEPT !.envelope = EnvRelease(@)]

\* Operator.is_silent
OperatorIsSilent(op) == ~op.reset /\ EnvIsSilent(op.envelope)

\* len(buf[:n]) for a buffer of len samples.
Slice(len, n) == Min(len, n)

\* Operator.mono_out, one send(modulator) with len(modulator) = mod_len:
\* the operator afterwards.
OperatorMonoOut(op, adr, mod_len) ==
  LET env == IF EnvIsSilent(op.envelope)
               THEN op.envelope
               ELSE EnvAdvanceN(op.envelope, adr, mod_len)
  IN IF op.reset
       THEN [op EXCEPT !.reset = FALSE, !.envelope = EnvReset(env)]
       ELSE [op EXCEPT !.envelope = env]

\* Operator.mono_out: the length of the buffer that send yields.
OperatorOutLen(mod_len) == Slice(MAX_BUFFER, mod_len)

(* ------------------------------------------------------ PhaseModulator *)

\* pitch * rate, for a rate in thousandths (no intermediate overflow).
Detune(pitch, rate) ==
  (pitch \div 1000) * rate + ((pitch % 1000) * rate) \div 1000

\* A voice made with its first operator waiting to be retriggered.
NewVoicePending ==
  [op1 |-> [NewOperator EXCEPT !.reset = TRUE], op2 |-> NewOperator,
   op3 |-> NewOperator, last_pitch_played |-> 0]

\* PhaseModulator.__post_init__ / reset_operators
NewVoice ==
  [op1 |-> NewOperator, op2 |-> NewOperator, op3 |-> NewOperator,
   last_pitch_played |-> 0]

\* is_silent looking at the first operator only, whatever the algorithm.
IsSilentOp1Only(algo, v) == OperatorIsSilent(v.op1)

\* PhaseModulator.is_silent, for self.algorithm = algo
IsSilentUnder(algo, v) ==
  IF algo = 0 \/ algo = 1
    THEN OperatorIsSilent(v.op1)
    ELSE IF algo = 2 \/ algo = 3
      THEN OperatorIsSilent(v.op1) /\ OperatorIsSilent(v.op2)
      ELSE /\ OperatorIsSilent(v.op1)
           /\ OperatorIsSilent(v.op2)
           /\ OperatorIsSilent(v.op3)

\* PhaseModulator.is_silent
VoiceIsSilent(v) == IsSilentUnder(Algorithm, v)

\* PhaseModulator.is_released
VoiceIsReleased(v) == v.last_pitch_played = 0

\* PhaseModulator.note_on
VoiceNoteOn(v, pitch, volume) ==
  [last_pitch_played |-> pitch,
   op1 |-> OperatorNoteOn(v.op1, Detune(pitch, Rate1), volume),
   op2 |-> OperatorNoteOn(v.op2, Detune(pitch, Rate2), volume),
   op3 |-> OperatorNoteOn(v.op3, Detune(pitch, Rate3), volume)]

\* note_off without the comparison with last_pitch_played.
VoiceNoteOffAnyPitch(v, pitch) ==
  [last_pitch_played |-> 0,
   op1 |-> OperatorNoteOff(v.op1),
   op2 |-> OperatorNoteOff(v.op2),
   op3 |-> OperatorNoteOff(v.op3)]

\* PhaseModulator.note_off
VoiceNoteOff(v, pitch) ==
  IF pitch # v.last_pitch_played
    THEN v
    ELSE [last_pitch_played |-> 0,
          op1 |-> OperatorNoteOff(v.op1),
          op2 |-> OperatorNoteOff(v.op2),
          op3 |-> OperatorNoteOff(v.op3)]

\* PhaseModulator.mono_out: the loops `for i in range(want_frames)` that
\* sum operator buffers index buffers of at most MAX_BUFFER samples, and
\* raise IndexError past their end. Algorithm 0 has no such loop.
VoiceMonoOutRaises(algo, want_frames) ==
  algo # 0 /\ want_frames > Slice(MAX_BUFFER, want_frames)

\* PhaseModulator.mono_out, one send(want_frames): the voice afterwards,
\* also when the call ends in IndexError. Every algorithm renders op3, then
\* op2, then op1; the modulator buffers differ, and all of them hold
\* len(zero_buffer[:want_frames]) samples. Algorithm 1 sums out3 and out2
\* before it sends to op1: when that loop raises, op1 has not rendered.
VoiceMonoOutUnder(algo, v, want_frames) ==
  LET zero == Slice(MAX_BUFFER, want_frames)
      out3 == OperatorOutLen(zero)
      mod2 == IF algo \in {0, 2, 3} THEN out3 ELSE zero
      out2 == OperatorOutLen(mod2)
      mod1 == CASE algo = 0 -> out2
                [] algo = 1 -> Slice(MAX_BUFFER, want_frames)
                [] algo = 2 -> out3
                [] OTHER -> zero
  IN [v EXCEPT !.op3 = OperatorMonoOut(@, Adr3, zero),
               !.op2 = OperatorMonoOut(@, Adr2, mod2),
               !.op1 = IF algo = 1 /\ VoiceMonoOutRaises(algo, want_frames)
                         THEN @
                         ELSE OperatorMonoOut(@, Adr1, mod1)]

VoiceMonoOut(v, want_frames) == VoiceMonoOutUnder(Algorithm, v, want_frames)

\* PhaseModulator.mono_out: the buffer sent to operator k as its modulator.
ModSource(algo, k) ==
  CASE k = 3 -> "zero"
    [] k = 2 -> IF algo = 0 \/ algo = 2 \/ algo = 3 THEN "out3" ELSE "zero"
    [] OTHER -> CASE algo = 0 -> "out2"
                  [] algo = 1 -> "saturate(out3 + out2)"
                  [] algo = 2 -> "out3"
                  [] OTHER -> "zero"

\* saturate(): a sum of samples brought back into the 16-bit range.
Saturate(x) ==
  IF x > INT16_MAXVALUE THEN INT16_MAXVALUE
  ELSE IF x < - INT16_MAXVALUE - 1 THEN - INT16_MAXVALUE - 1 ELSE x

\* The routing of algorithm 3 taken for every id without its own.
VoiceSampleFallback3(algo, s1, s2, s3) ==
  CASE algo = 0 -> s1
    [] algo = 1 -> s1
    [] OTHER -> Saturate(s1 + s2)

\* PhaseModulator.mono_out: sample i of the buffer that is yielded, from
\* samples i of out1, out2 and out3.
VoiceSample(algo, s1, s2, s3) ==
  CASE algo = 0 -> s1
    [] algo = 1 -> s1
    [] algo = 2 -> Saturate(s1 + s2)
    [] algo = 3 -> Saturate(s1 + s2)
    [] OTHER -> Saturate(s1 + s2 + s3)

\* PhaseModulator.mono_out: the operators whose buffers make the buffer
\* that is yielded: out1 alone, out1 + out2, or out1 + out2 + out3.
OutputOps(algo) ==
  CASE algo = 0 -> {1}
    [] algo = 1 -> {1}
    [] algo = 2 -> {1, 2}
    [] algo = 3 -> {1, 2}
    [] OTHER -> {1, 2, 3}

\* PhaseModulator.mono_out: the length of the buffer that send yields.
VoiceOutLen(want_frames) ==
  IF Algorithm \in {0, 1}
    THEN OperatorOutLen(OperatorOutLen(OperatorOutLen(
           Slice(MAX_BUFFER, want_frames))))
    ELSE Slice(MAX_BUFFER, want_frames)

\* panning(): the length of the stereo buffer that send yields.
PanningOutLen(want_frames) == Slice(2 * MAX_BUFFER, 2 * want_frames)

(* --------------------------------------------------------- Synthesizer *)

VARIABLES
  voices,               \* Synthesizer.voices: voice index -> PhaseModulator
  voices_lru,           \* Synthesizer._voices_lru
  sustain_level,        \* Synthesizer._sustain
  released_on_sustain,  \* Synthesizer._released_on_sustain
  stream,               \* the generator made by stereo_out()
  trig_order,           \* history: the voices, least recently triggered first
  last,                 \* history: the method called last and its branch
  ctl,                  \* the MIDI consumer inside PhaseModulator.note_on
  rnd,                  \* the audio thread inside one block of the mixer
  obs,                  \* history: what rnd has read of the voice it renders
  polyphony,            \* Synthesizer.polyphony
  panning,              \* Synthesizer.panning, as <<numerator, denominator>>
  out_sample,           \* _stereo_out: a sample of out_buffer and its sources
  ir,                   \* iridium.py: the Performance and what it sent last
  rb,                   \* redblue.py: the Performance and what it sent last
  sl,                   \* slew.py: a SlewGenerator and its task
  mq                    \* async_main: the MIDI queue and the event loop's calls

vars ==
  <<voices, voices_lru, sustain_level, released_on_sustain, stream,
    trig_order, last, ctl, rnd, obs, polyphony, panning, out_sample, ir,
    rb, sl, mq>>

\* The variables of fmsynth.py.
synth ==
  <<voices, voices_lru, sustain_level, released_on_sustain, stream,
    trig_order, last, ctl, rnd, obs, polyphony, panning, out_sample>>

\* The variables of the two threads when each call runs undisturbed.
threads == <<ctl, rnd, obs>>

\* What only reset_voices assigns, and the field it reads; and the sample
\* values, which are followed only where the mixing arithmetic is.
config == <<polyphony, panning, out_sample>>

NoSample == [stereo |-> <<>>, mixed |-> 0]

\* iridium.py is another program: no Performance where the synthesizer runs.
NoPerformance ==
  [pc |-> "none", catch_damper |-> FALSE, start_stop |-> FALSE,
   is_sustain |-> FALSE, notes_down |-> <<>>, notes_sustained |-> <<>>,
   last_expr |-> -1, last_mod |-> -1, did |-> "none", sent |-> <<>>,
   on |-> {}, doubled |-> FALSE, inp |-> <<>>]

\* redblue.py is another program again.
NoRedBlue ==
  [pc |-> "none", portamento |-> "false", start_stop |-> FALSE,
   pass_clock |-> FALSE, accent_volume |-> 0, damper_portamento_max |-> 0,
   expression_min |-> 0, expression_max |-> 0,
   power_chord |-> FALSE, duophon |-> FALSE, notes |-> <<>>,
   last_color |-> "BLUE", is_accent |-> FALSE, is_portamento |-> FALSE,
   last_expression_value |-> 64, expression_last_sent |-> -1,
   slew_request |-> <<>>, did |-> "none", sent |-> <<>>]

\* No SlewGenerator has been made.
NoSlew ==
  [pc |-> "none", steps |-> 0, scale |-> 0, new_value |-> <<>>,
   current_value |-> 0, target |-> 0, step |-> 0, calls |-> 0, value |-> 0,
   called |-> <<>>, taken |-> 0, last_update |-> <<>>, since |-> 0,
   hit |-> FALSE]

\* No MIDI queue: the state of mq where async_main does not run.
NoQueue ==
  [pc |-> "none", ready |-> <<>>, queue |-> <<>>, handed |-> <<>>,
   applied |-> <<>>, raised |-> 0]

CtlIdle ==
  [at |-> "idle", pc |-> 0, vli |-> 0, op |-> 0, first_released |-> 0,
   voice |-> 0, pitch |-> 0, volume |-> 0, calls |-> 0, took |-> "none"]

RndIdle ==
  [voice |-> 0, op |-> 0, at |-> "idle", want_frames |-> 0, i |-> 0,
   velocity |-> 0]

\* What a block has read of one operator: nothing yet, or the
\* <<pitch, current_velocity>> of each of its samples.
Unread == [seen |-> "none", reads |-> {}]

NoObs == <<Unread, Unread, Unread>>

\* reset_voices: `2 * i / (polyphony - 1) - 1` for i in range(polyphony), as
\* the fraction (2 * i - (polyphony - 1)) / (polyphony - 1).
Panning(p) == [i \in 1 .. p |-> <<2 * (i - 1) - (p - 1), p - 1>>]

\* reset_voices: the division by polyphony - 1 raises ZeroDivisionError.
PanningRaises(p) == p - 1 = 0

\* lst without its element at position i (list.pop(i)).
Pop(lst, i) == SubSeq(lst, 1, i - 1) \o SubSeq(lst, i + 1, Len(lst))

\* [i for i in range(polyphony)]
Range(n) == [i \in 1 .. n |-> i]

\* ScanLru with the released voices forgotten (first_released never set).
RECURSIVE ScanLruNoReleased(_, _, _, _)
ScanLruNoReleased(vs, lru, vli, first_released) ==
  IF vli > Len(lru)
    THEN 1
    ELSE IF VoiceIsSilent(vs[lru[vli]])
           THEN vli
           ELSE ScanLruNoReleased(vs, lru, vli + 1, first_released)

\* ScanLru taking the voice at the back of the list when none is silent or
\* released.
RECURSIVE ScanLruStealsBack(_, _, _, _)
ScanLruStealsBack(vs, lru, vli, first_released) ==
  IF vli > Len(lru)
    THEN IF first_released # 0 THEN first_released ELSE Len(lru)
    ELSE IF VoiceIsSilent(vs[lru[vli]])
           THEN vli
           ELSE ScanLruStealsBack(vs, lru, vli + 1,
                  IF first_released = 0 /\ VoiceIsReleased(vs[lru[vli]])
                    THEN vli
                    ELSE first_released)

\* Synthesizer.note_on, the for/else over the LRU list: the position vli
\* whose voice is taken. first_released = 0 stands for None.
RECURSIVE ScanLru(_, _, _, _)
ScanLru(vs, lru, vli, first_released) ==
  IF vli > Len(lru)
    THEN IF first_released # 0 THEN first_released ELSE 1
    ELSE IF VoiceIsSilent(vs[lru[vli]])
           THEN vli
           ELSE ScanLru(vs, lru, vli + 1,
                        IF first_released = 0 /\ VoiceIsReleased(vs[lru[vli]])
                          THEN vli
                          ELSE first_released)

\* MoveToBack with the pop forgotten.
MoveToBackNoPop(lru, vli) == Append(lru, lru[vli])

\* Synthesizer.note_on: lru.append(lru.pop(vli))
MoveToBack(lru, vli) == Append(Pop(lru, vli), lru[vli])

\* Synthesizer.note_off, the broadcast: v.note_off(pitch, volume) for all v.
BroadcastNoteOff(vs, pitch) == [i \in DOMAIN vs |-> VoiceNoteOff(vs[i], pitch)]

\* FlushReleased releasing every voice, whatever its pitch.
FlushReleasedAll(vs, pitches) ==
  [i \in DOMAIN vs |-> VoiceNoteOff(vs[i], vs[i].last_pitch_played)]

\* Synthesizer.sustain, the flush: every voice gets note_off for every pitch
\* of the set. A voice that matches one of them is released and then holds
\* pitch 0.0, which is in no set, so the order of the pitches is immaterial.
FlushReleased(vs, pitches) ==
  [i \in DOMAIN vs |->
     IF vs[i].last_pitch_played \in pitches
       THEN VoiceNoteOff(vs[i], vs[i].last_pitch_played)
       ELSE vs[i]]

\* Synthesizer.sustain: `if self._sustain > 32 and value < 32`
SustainFlushes(level, value) ==
  level > SustainThreshold /\ value < SustainThreshold

\* reset_voices: what the address kept in id_voices is with respect to the
\* new list. The new list is allocated while the old one is still
\* referenced, so its address differs from the old one's; it may be that
\* of a list freed earlier.
IdAfterReset(id_voices) ==
  CASE id_voices = "same" -> {"other"}
    [] id_voices = "other" -> {"other", "same"}
    [] OTHER -> {"none"}

\* The blocks of less than MAX_BUFFER frames asked for so far, after one
\* of want_frames.
ShortAfter(want_frames) ==
  IF want_frames < MAX_BUFFER THEN stream.short + 1 ELSE stream.short

\* stereo_out starting _stereo_out again without the frame count.
RestartWantFramesZero(want_frames) == 0

\* stereo_out: the want_frames with which _stereo_out is started again after
\* EOFError("Voices have been reset", want_frames).
RestartWantFrames(want_frames) == want_frames

\* _stereo_out: the length of the buffer yielded by the mixing loop, whose
\* 2 * want_frames samples are read from every voice's panned buffer.
MixOutLen(want_frames) ==
  Min(Slice(2 * MAX_BUFFER, 2 * want_frames), PanningOutLen(want_frames))

\* Synthesizer(...) followed by stream = synth.stereo_out(); init(stream):
\* the chain of generators is built over the first pool and the stream is
\* suspended at `want_frames = yield stereo[0]`, having yielded the mono
\* buffer of the first voice.
Init ==
  /\ voices = [i \in Voices |-> NewVoice]
  /\ voices_lru = Range(Polyphony)
  /\ sustain_level = 0
  /\ released_on_sustain = {}
  /\ stream = [pc |-> "first", id_voices |-> "none", chain |-> "current",
               want_frames |-> 0, out_len |-> MAX_BUFFER, short |-> 0]
  /\ trig_order = Range(Polyphony)
  /\ last = [op |-> "init", did |-> "built"]
  /\ ctl = CtlIdle
  /\ rnd = RndIdle
  /\ obs = NoObs
  /\ polyphony = Polyphony
  /\ panning = Panning(Polyphony)
  /\ out_sample = NoSample
  /\ ir = NoPerformance
  /\ rb = NoRedBlue
  /\ sl = NoSlew
  /\ mq = NoQueue

\* Synthesizer.note_on(note, velocity)
note_on(note, velocity) ==
  /\ IF ~HasFreq(note)
       THEN /\ UNCHANGED <<voices, voices_lru, trig_order>>
            /\ last' = [op |-> "note_on", did |-> "ignored"]
       ELSE LET vli == ScanLru(voices, voices_lru, 1, 0)
                vi == voices_lru[vli]
            IN /\ voices_lru' = MoveToBack(voices_lru, vli)
               /\ voices' = [voices EXCEPT
                    ![vi] = VoiceNoteOn(@, note_to_freq[note], velocity)]
               /\ trig_order' =
                    Append(SelectSeq(trig_order, LAMBDA u : u # vi), vi)
               /\ last' = [op |-> "note_on",
                           did |-> IF VoiceIsSilent(voices[vi])
                                     THEN "took_silent"
                                     ELSE IF VoiceIsReleased(voices[vi])
                                            THEN "took_released"
                                            ELSE "stole"]
  /\ UNCHANGED <<sustain_level, released_on_sustain, stream, threads, config,
                 ir, rb, sl>>

\* Synthesizer.note_on, called while the MIDI queue is left alone.
NoteOn(note, velocity) ==
  /\ note_on(note, velocity)
  /\ UNCHANGED mq

\* Synthesizer.note_off(note, velocity)
note_off(note, velocity) ==
  /\ IF ~HasFreq(note)
       THEN /\ UNCHANGED <<voices, released_on_sustain>>
            /\ last' = [op |-> "note_off", did |-> "ignored"]
       ELSE IF sustain_level > SustainThreshold
         THEN /\ released_on_sustain' =
                   released_on_sustain \cup {note_to_freq[note]}
              /\ UNCHANGED voices
              /\ last' = [op |-> "note_off", did |-> "deferred"]
         ELSE /\ voices' = BroadcastNoteOff(voices, note_to_freq[note])
              /\ UNCHANGED released_on_sustain
              /\ last' = [op |-> "note_off", did |-> "broadcast"]
  /\ UNCHANGED <<voices_lru, sustain_level, stream, trig_order, threads,
                 config, ir, rb, sl>>

\* Synthesizer.note_off, called while the MIDI queue is left alone.
NoteOff(note, velocity) ==
  /\ note_off(note, velocity)
  /\ UNCHANGED mq

\* Synthesizer.sustain(value)
sustain(value) ==
  /\ IF SustainFlushes(sustain_level, value)
       THEN /\ voices' = FlushReleased(voices, released_on_sustain)
            /\ released_on_sustain' = {}
            /\ last' = [op |-> "sustain", did |-> "flushed"]
       ELSE /\ UNCHANGED <<voices, released_on_sustain>>
            /\ last' = [op |-> "sustain", did |-> "stored"]
  /\ sustain_level' = value
  /\ UNCHANGED <<voices_lru, stream, trig_order, threads, config, ir, rb, sl>>

\* Synthesizer.sustain, called while the MIDI queue is left alone.
Sustain(value) ==
  /\ sustain(value)
  /\ UNCHANGED mq

\* Synthesizer.all_notes_off -> reset_voices: a new list of new voices. The
\* stream's generators keep the voices they were made for, which are now
\* those of a discarded pool.
all_notes_off ==
  /\ panning' = Panning(polyphony)
  /\ voices' = [i \in 1 .. polyphony |-> NewVoice]
  /\ voices_lru' = Range(polyphony)
  /\ sustain_level' = 0
  /\ released_on_sustain' = {}
  /\ \E id \in IdAfterReset(stream.id_voices) :
       stream' = [stream EXCEPT !.chain = "discarded", !.id_voices = id]
  /\ trig_order' = Range(polyphony)
  /\ last' = [op |-> "all_notes_off", did |-> "reset"]
  /\ UNCHANGED <<threads, polyphony, out_sample, ir, rb, sl>>

\* Synthesizer.all_notes_off, called while the MIDI queue is left alone.
AllNotesOff ==
  /\ all_notes_off
  /\ UNCHANGED mq

\* _stereo_out, the mixing loop's body once id(self.voices) = id_voices:
\* every generator of the chain gets send(want_frames). The voices rendered
\* are the synthesizer's only if the chain was made for the current pool.
\* An exception raised by the first voice's mono_out passes through
\* panning, _stereo_out and stereo_out, which catches EOFError only, and
\* out of send: the generator is finished and nothing is yielded.
MixLoop(chain, want_frames) ==
  IF VoiceMonoOutRaises(Algorithm, want_frames)
    THEN /\ stream' = [pc |-> "dead", id_voices |-> "same", chain |-> chain,
                       want_frames |-> want_frames, out_len |-> 0,
                       short |-> ShortAfter(want_frames)]
         /\ voices' = IF chain = "current"
                        THEN [voices EXCEPT
                                ![1] = VoiceMonoOut(@, want_frames)]
                        ELSE voices
    ELSE /\ stream' = [pc |-> "loop", id_voices |-> "same", chain |-> chain,
                       want_frames |-> want_frames,
                       out_len |-> MixOutLen(want_frames),
                       short |-> ShortAfter(want_frames)]
         /\ voices' = IF chain = "current"
                        THEN [i \in Voices |->
                                VoiceMonoOut(voices[i], want_frames)]
                        ELSE voices

\* stereo_out, `yield from self._stereo_out(want_frames)` after EOFError:
\* a new chain over the current pool. With want_frames = 0 the new
\* generator stops at `yield stereo[0]`, the mono buffer of MAX_BUFFER
\* samples that the first voice yields when initialised.
Restart(want_frames) ==
  IF want_frames = 0
    THEN /\ stream' = [pc |-> "first", id_voices |-> "none",
                       chain |-> "current", want_frames |-> 0,
                       out_len |-> MAX_BUFFER,
                       short |-> ShortAfter(want_frames)]
         /\ UNCHANGED voices
    ELSE MixLoop("current", want_frames)

\* stream.send(want_frames), as the audio driver calls it.
Render(want_frames) ==
  /\ want_frames < MAX_BUFFER => stream.short < MaxShortBlocks
  /\ IF stream.pc = "dead"
       THEN \* send on a finished generator raises StopIteration
            /\ UNCHANGED <<voices, stream>>
            /\ last' = [op |-> "render", did |-> "stopped"]
       ELSE IF stream.pc = "first"
         THEN \* resumed at `want_frames = yield stereo[0]`; then
              \* `id_voices = id(self.voices)`
              /\ MixLoop(stream.chain, want_frames)
              /\ last' = [op |-> "render", did |-> "first"]
         ELSE \* resumed at `want_frames = yield out_buffer[...]`
              IF stream.id_voices # "same"
                THEN /\ Restart(RestartWantFrames(want_frames))
                     /\ last' = [op |-> "render", did |-> "restarted"]
                ELSE /\ MixLoop(stream.chain, want_frames)
                     /\ last' = [op |-> "render", did |-> "mixed"]
  /\ UNCHANGED <<voices_lru, sustain_level, released_on_sustain, trig_order,
                 threads, config, ir, rb, sl, mq>>

\* The synthesizer driven with the given notes, pedal values and frame
\* counts, every call running from its start to its end undisturbed.
NextOver(notes, values, frames) ==
  \/ \E note \in notes, velocity \in Velocities : NoteOn(note, velocity)
  \/ \E note \in notes, velocity \in Velocities : NoteOff(note, velocity)
  \/ \E value \in values : Sustain(value)
  \/ AllNotesOff
  \/ \E want_frames \in frames : Render(want_frames)

Next == NextOver(Notes, SustainValues, FrameCounts)

Spec == Init /\ [][Next]_vars

\* The synthesizer played with three mapped notes, for the order in which
\* voices are stolen.
StealNotes == {60, 64, 67}

StealNext == NextOver(StealNotes, {0}, FrameCounts)

StealSpec == Init /\ [][StealNext]_vars

\* The synthesizer asked for blocks of changing sizes, down to one frame
\* and up to MAX_BUFFER frames, while one note is played.
StreamFrameCounts == {1, 2, MAX_BUFFER}

StreamNext == NextOver({60}, {0}, StreamFrameCounts)

StreamSpec == Init /\ [][StreamNext]_vars

\* The synthesizer asked for whole blocks and for blocks of 400 frames,
\* between which the operators of a voice, whose envelopes differ in
\* length, come to stand in different stages.
VoiceFrameCounts == {400, MAX_BUFFER}

VoiceNext == NextOver({60}, {0}, VoiceFrameCounts)

VoiceSpec == Init /\ [][VoiceNext]_vars

\* The synthesizer played with a mapped note and with the first note past
\* the end of the table, with the pedal.
EdgeNotes == {60, 120}

EdgeNext == NextOver(EdgeNotes, {0, 32, 64}, FrameCounts)

EdgeSpec == Init /\ [][EdgeNext]_vars

\* midi_consumer, one message <<status, data1, data2>> taken from the queue
\* and dispatched. Messages it only prints a warning for change nothing.
Dispatch(msg) ==
  IF msg[1] = NOTE_ON
    THEN IF msg[3] = 0
           THEN note_off(msg[2], msg[3])
           ELSE note_on(msg[2], msg[3])
    ELSE IF msg[1] = NOTE_OFF
      THEN note_off(msg[2], msg[3])
      ELSE IF msg[1] = CONTROL_CHANGE /\ msg[2] = SUSTAIN_PEDAL
        THEN sustain(msg[3])
        ELSE IF msg[1] = CONTROL_CHANGE /\ msg[2] = ALL_NOTES_OFF
          THEN all_notes_off
          ELSE UNCHANGED <<synth, ir, rb, sl>>

\* midi_consumer with every NOTE_ON sent to note_on, velocity 0 included.
MidiConsumerNoZeroCheck(msg) ==
  IF msg[1] = NOTE_ON
    THEN NoteOn(msg[2], msg[3])
    ELSE IF msg[1] = NOTE_OFF
      THEN NoteOff(msg[2], msg[3])
      ELSE IF msg[1] = CONTROL_CHANGE /\ msg[2] = SUSTAIN_PEDAL
        THEN Sustain(msg[3])
        ELSE IF msg[1] = CONTROL_CHANGE /\ msg[2] = ALL_NOTES_OFF
          THEN AllNotesOff
          ELSE UNCHANGED vars

\* midi_consumer, one message dispatched while the queue is left alone.
MidiConsumer(msg) ==
  /\ Dispatch(msg)
  /\ UNCHANGED mq

\* The messages of a keyboard that ends its notes with NOTE_ON, velocity 0,
\* and has a sustain pedal and a panic button.
MidiNotes == {60, 64}

MidiMessages ==
  {<<NOTE_ON, note, velocity>> : note \in MidiNotes, velocity \in {0, 100}}
    \cup {<<CONTROL_CHANGE, SUSTAIN_PEDAL, value>> : value \in {0, 64}}
    \cup {<<CONTROL_CHANGE, ALL_NOTES_OFF, 0>>}

MidiNext ==
  \/ \E msg \in MidiMessages : MidiConsumer(msg)
  \/ \E want_frames \in FrameCounts : Render(want_frames)

MidiSpec == Init /\ [][MidiNext]_vars

(* ------------------------------------------------------- the MIDI queue *)
(* async_main: midi_callback runs on the MIDI driver's thread and hands    *)
(* every message to the event loop with call_soon_threadsafe(              *)
(* queue.put_nowait, ...); the loop runs the calls it was handed in order, *)
(* and midi_consumer, a task of the same loop, takes the messages from the *)
(* queue. mq.ready is the loop's list of calls to run, mq.queue the        *)
(* asyncio.Queue, mq.handed and mq.applied are histories.                  *)

\* asyncio.Queue(maxsize=256), scaled down to a queue of two.
Maxsize == 2

\* The messages handed to midi_callback in one run.
MaxEvents == 4

\* The entry of the loop's list that resumes midi_consumer (the callback of
\* the future that queue.get() waits on); messages are <<status, d1, d2>>.
Wake == <<0, 0, 0>>

\* async_main up to `await midi_consumer(queue, synth)`, and midi_consumer
\* up to its first `await queue.get()` on the empty queue.
NewQueue == [NoQueue EXCEPT !.pc = "waiting"]

\* Queue.put_nowait(msg), run by the loop: QueueFull is raised if the queue
\* holds maxsize items (the loop reports it and goes on; the message is
\* gone); else the item is stored and the waiting getter, if there is one,
\* is woken: the task's resumption goes to the back of the loop's list.
put_nowait(q, msg) ==
  IF Len(q.queue) >= Maxsize
    THEN [q EXCEPT !.raised = @ + 1]
    ELSE IF q.pc = "waiting"
      THEN [q EXCEPT !.queue = Append(@, msg), !.pc = "woken",
                     !.ready = Append(@, Wake)]
      ELSE [q EXCEPT !.queue = Append(@, msg)]

\* What the keyboard sends: a key down, the key up as NOTE_ON with velocity
\* 0, and the pedal down.
QueueMessages ==
  {<<NOTE_ON, 60, 100>>, <<NOTE_ON, 60, 0>>,
   <<CONTROL_CHANGE, SUSTAIN_PEDAL, 64>>}

\* midi_callback(msg), on the MIDI driver's thread.
QCallback(msg) ==
  /\ mq.pc # "none"
  /\ Len(mq.handed) < MaxEvents
  /\ mq' = [mq EXCEPT !.ready = Append(@, msg), !.handed = Append(@, msg)]
  /\ UNCHANGED <<synth, ir, rb, sl>>

\* The loop runs the next call of its list, a put_nowait. It runs no call
\* while midi_consumer is running.
QLoopPut ==
  /\ mq.pc \in {"waiting", "woken"}
  /\ mq.ready # <<>>
  /\ Head(mq.ready) # Wake
  /\ mq' = put_nowait([mq EXCEPT !.ready = Tail(@)], Head(mq.ready))
  /\ UNCHANGED <<synth, ir, rb, sl>>

\* The loop runs the next call of its list, the resumption of midi_consumer:
\* queue.get() goes on to get_nowait().
QLoopWake ==
  /\ mq.pc = "woken"
  /\ mq.ready # <<>>
  /\ Head(mq.ready) = Wake
  /\ mq' = [mq EXCEPT !.ready = Tail(@), !.pc = "running"]
  /\ UNCHANGED <<synth, ir, rb, sl>>

\* midi_consumer, one pass of `while True`: the message that queue.get()
\* returns is dispatched (no call of the Synthesizer suspends); the next
\* queue.get() returns at once if the queue holds an item and suspends the
\* task if it is empty.
QConsume ==
  /\ mq.pc = "running"
  /\ mq.queue # <<>>
  /\ Dispatch(Head(mq.queue))
  /\ mq' = [mq EXCEPT !.queue = Tail(@),
                      !.applied = Append(@, Head(mq.queue)),
                      !.pc = IF Tail(mq.queue) = <<>>
                               THEN "waiting" ELSE "running"]

QueueInit ==
  /\ voices = [i \in Voices |-> NewVoice]
  /\ voices_lru = Range(Polyphony)
  /\ sustain_level = 0
  /\ released_on_sustain = {}
  /\ stream = [pc |-> "first", id_voices |-> "none", chain |-> "current",
               want_frames |-> 0, out_len |-> MAX_BUFFER, short |-> 0]
  /\ trig_order = Range(Polyphony)
  /\ last = [op |-> "init", did |-> "built"]
  /\ ctl = CtlIdle
  /\ rnd = RndIdle
  /\ obs = NoObs
  /\ polyphony = Polyphony
  /\ panning = Panning(Polyphony)
  /\ out_sample = NoSample
  /\ ir = NoPerformance
  /\ rb = NoRedBlue
  /\ sl = NoSlew
  /\ mq = NewQueue

QueueNext ==
  \/ \E msg \in QueueMessages : QCallback(msg)
  \/ QLoopPut
  \/ QLoopWake
  \/ QConsume

QueueSpec == QueueInit /\ [][QueueNext]_vars

\* int(x) for the fraction x = a / b with b > 0: truncation towards zero.
TruncDiv(a, b) == IF a >= 0 THEN a \div b ELSE - ((- a) \div b)

RECURSIVE SeqSum(_)
SeqSum(seq) == IF seq = <<>> THEN 0 ELSE Head(seq) + SeqSum(Tail(seq))

\* The mix without the gain: the sum of the voices' samples.
MixSampleNoGain(p, stereo) == SeqSum(stereo)

\* _stereo_out: `int(sum([mix_down * s[i] for s in stereo]))` with
\* mix_down = 1 / polyphony. For a polyphony that is a power of two the
\* products and their sum are exact in floating point: the sum is the
\* fraction SeqSum(stereo) / p.
MixSample(p, stereo) == TruncDiv(SeqSum(stereo), p)

\* The polyphonies for which 1 / polyphony is exact, and samples of the
\* voices' panned buffers: the ends of the range, small ones and silence.
MixPolyphonies == {2, 4}

MixSamples == {- INT16_MAXVALUE - 1, -5, 0, 7, INT16_MAXVALUE}

\* Synthesizer(polyphony=p, ...); stream = synth.stereo_out(); init(stream)
MixInit ==
  /\ polyphony \in MixPolyphonies
  /\ panning = Panning(polyphony)
  /\ voices = [i \in 1 .. polyphony |-> NewVoice]
  /\ voices_lru = Range(polyphony)
  /\ sustain_level = 0
  /\ released_on_sustain = {}
  /\ stream = [pc |-> "first", id_voices |-> "none", chain |-> "current",
               want_frames |-> 0, out_len |-> MAX_BUFFER, short |-> 0]
  /\ trig_order = Range(polyphony)
  /\ last = [op |-> "init", did |-> "built"]
  /\ ctl = CtlIdle
  /\ rnd = RndIdle
  /\ obs = NoObs
  /\ out_sample = NoSample
  /\ ir = NoPerformance
  /\ rb = NoRedBlue
  /\ sl = NoSlew
  /\ mq = NoQueue

\* _stereo_out, one sample of the mixing loop: out_buffer[i] from the
\* samples i of the voices' panned buffers.
MixDown(stereo) ==
  /\ out_sample' = [stereo |-> stereo, mixed |-> MixSample(polyphony, stereo)]
  /\ last' = [op |-> "render", did |-> "mixed"]
  /\ UNCHANGED <<voices, voices_lru, sustain_level, released_on_sustain,
                 stream, trig_order, threads, polyphony, panning, ir, rb, sl, mq>>

MixNext == \E stereo \in [1 .. polyphony -> MixSamples] : MixDown(stereo)

MixSpec == MixInit /\ [][MixNext]_vars

\* The largest polyphony configured.
MaxPolyphony == 48

\* Before Synthesizer(polyphony=p, ...) has run, for every p from 1 on.
PanInit ==
  /\ polyphony \in 1 .. MaxPolyphony
  /\ panning = <<>>
  /\ voices = <<>>
  /\ voices_lru = <<>>
  /\ sustain_level = 0
  /\ released_on_sustain = {}
  /\ stream = [pc |-> "none", id_voices |-> "none", chain |-> "current",
               want_frames |-> 0, out_len |-> 0, short |-> 0]
  /\ trig_order = <<>>
  /\ last = [op |-> "init", did |-> "configured"]
  /\ ctl = CtlIdle
  /\ rnd = RndIdle
  /\ obs = NoObs
  /\ out_sample = NoSample
  /\ ir = NoPerformance
  /\ rb = NoRedBlue
  /\ sl = NoSlew
  /\ mq = NoQueue

\* Synthesizer.__post_init__ -> reset_voices, whose first statement after
\* reading self.polyphony computes the pan values.
PostInit ==
  /\ last = [op |-> "init", did |-> "configured"]
  /\ IF PanningRaises(polyphony)
       THEN /\ last' = [op |-> "reset_voices", did |-> "ZeroDivisionError"]
            /\ UNCHANGED <<panning, voices, voices_lru, trig_order>>
       ELSE /\ panning' = Panning(polyphony)
            /\ voices' = [i \in 1 .. polyphony |-> NewVoice]
            /\ voices_lru' = Range(polyphony)
            /\ trig_order' = Range(polyphony)
            /\ last' = [op |-> "reset_voices", did |-> "built"]
  /\ UNCHANGED <<sustain_level, released_on_sustain, stream, threads,
                 polyphony, out_sample, ir, rb, sl, mq>>

\* all_notes_off on a synthesizer that was built.
LaterReset ==
  /\ last.did \in {"built", "reset"}
  /\ AllNotesOff

PanNext ==
  \/ PostInit
  \/ LaterReset

PanSpec == PanInit /\ [][PanNext]_vars

\* The synthesizer asked for one block longer than the buffers of its
\* generators, which makes a voice raise IndexError inside a render call.
FaultFrameCounts == {MAX_BUFFER, MAX_BUFFER + 1}

FaultNext == NextOver({60}, {0}, FaultFrameCounts)

FaultSpec == Init /\ [][FaultNext]_vars

(* ------------------------------------------------------- the two threads *)
(* The MIDI consumer runs on the event loop's thread and the mixer on the  *)
(* audio driver's thread, without a lock: an attribute read or write of    *)
(* one may fall between two of the other. Here Synthesizer.note_on is      *)
(* taken read by read and write by write, and a block of the mixer         *)
(* operator by operator and sample by sample.                              *)

\* v.op1, v.op2, v.op3 by number.
GetOp(v, k) == CASE k = 1 -> v.op1 [] k = 2 -> v.op2 [] OTHER -> v.op3

SetOp(v, k, op) ==
  CASE k = 1 -> [v EXCEPT !.op1 = op]
    [] k = 2 -> [v EXCEPT !.op2 = op]
    [] OTHER -> [v EXCEPT !.op3 = op]

RateOf(k) == CASE k = 1 -> Rate1 [] k = 2 -> Rate2 [] OTHER -> Rate3

AdrOf(k) == CASE k = 1 -> Adr1 [] k = 2 -> Adr2 [] OTHER -> Adr3

\* PhaseModulator.is_silent: the operators it asks, op1 first, as the
\* number of the last one.
SilentOps(algo) ==
  IF algo = 0 \/ algo = 1 THEN 1 ELSE IF algo = 2 \/ algo = 3 THEN 2 ELSE 3

\* Synthesizer.note_on up to the for loop: the lookup of the pitch; the
\* scan of the LRU list starts at its front, with first_released None.
CtlNoteOnBegin(note, velocity) ==
  /\ ctl.at = "idle"
  /\ ctl.calls < MaxNoteOns
  /\ HasFreq(note)
  /\ ctl' = [CtlIdle EXCEPT !.at = "reset", !.vli = 1, !.op = 1,
                            !.pitch = note_to_freq[note],
                            !.volume = velocity, !.calls = ctl.calls + 1]
  /\ last' = [op |-> "note_on", did |-> "began"]
  /\ UNCHANGED <<voices, voices_lru, sustain_level, released_on_sustain,
                 stream, trig_order, rnd, obs, config, ir, rb, sl, mq>>

\* The voice that the scan is looking at, and the operator it is asking.
ScanVoice == voices[voices_lru[ctl.vli]]

ScanOp == GetOp(ScanVoice, ctl.op)

\* Synthesizer.note_on, the voice at position vli is taken:
\* lru.append(lru.pop(vli)); what follows is v.note_on(pitch, volume).
CtlTake(vli, took) ==
  LET vi == voices_lru[vli]
  IN /\ voices_lru' = MoveToBack(voices_lru, vli)
     /\ trig_order' = Append(SelectSeq(trig_order, LAMBDA u : u # vi), vi)
     /\ ctl' = [ctl EXCEPT !.at = "write", !.pc = 1, !.voice = vi,
                           !.took = took, !.vli = 0, !.op = 0,
                           !.first_released = 0]

\* Synthesizer.note_on, v.is_silent() was False: `elif first_released is
\* None and v.is_released()`, then the next voice of the list, or the else
\* branch of the for loop. last_pitch_played and the LRU list are read and
\* written by this thread only.
CtlNotSilent ==
  LET first_released ==
        IF ctl.first_released = 0 /\ VoiceIsReleased(ScanVoice)
          THEN ctl.vli
          ELSE ctl.first_released
  IN IF ctl.vli < Len(voices_lru)
       THEN /\ ctl' = [ctl EXCEPT !.at = "reset", !.vli = @ + 1, !.op = 1,
                                  !.first_released = first_released]
            /\ UNCHANGED <<voices_lru, trig_order>>
       ELSE IF first_released # 0
              THEN CtlTake(first_released, "released")
              ELSE CtlTake(1, "front")

\* Operator.is_silent, `not self.reset`: the read of the flag.
CtlIsSilentReset ==
  /\ ctl.at = "reset"
  /\ IF ScanOp.reset
       THEN CtlNotSilent
       ELSE /\ ctl' = [ctl EXCEPT !.at = "envelope"]
            /\ UNCHANGED <<voices_lru, trig_order>>
  /\ UNCHANGED <<voices, sustain_level, released_on_sustain, stream, last,
                 rnd, obs, config, ir, rb, sl, mq>>

\* Operator.is_silent, `and self.envelope.is_silent()`: the read of the
\* envelope, then the next operator that PhaseModulator.is_silent asks.
CtlIsSilentEnvelope ==
  /\ ctl.at = "envelope"
  /\ IF ~EnvIsSilent(ScanOp.envelope)
       THEN CtlNotSilent
       ELSE IF ctl.op < SilentOps(Algorithm)
              THEN /\ ctl' = [ctl EXCEPT !.at = "reset", !.op = @ + 1]
                   /\ UNCHANGED <<voices_lru, trig_order>>
              ELSE CtlTake(ctl.vli, "silent")
  /\ UNCHANGED <<voices, sustain_level, released_on_sustain, stream, last,
                 rnd, obs, config, ir, rb, sl, mq>>

\* PhaseModulator.note_on and the three Operator.note_on it calls, one
\* attribute write at a time: last_pitch_played, then reset, pitch and
\* current_velocity of op1, of op2 and of op3.
CtlWrite ==
  /\ ctl.at = "write"
  /\ LET v == voices[ctl.voice]
         k == ((ctl.pc - 2) \div 3) + 1
         field == (ctl.pc - 2) % 3
         op == GetOp(v, k)
     IN voices' = [voices EXCEPT ![ctl.voice] =
          IF ctl.pc = 1
            THEN [v EXCEPT !.last_pitch_played = ctl.pitch]
            ELSE SetOp(v, k,
                   CASE field = 0 -> [op EXCEPT !.reset = TRUE]
                     [] field = 1 ->
                          [op EXCEPT !.pitch = Detune(ctl.pitch, RateOf(k))]
                     [] OTHER ->
                          [op EXCEPT !.current_velocity = ctl.volume])]
  /\ ctl' = IF ctl.pc = 10 THEN [CtlIdle EXCEPT !.calls = ctl.calls]
                            ELSE [ctl EXCEPT !.pc = @ + 1]
  /\ UNCHANGED <<voices_lru, sustain_level, released_on_sustain, stream,
                 trig_order, last, rnd, obs, config, ir, rb, sl, mq>>

\* stream.send(want_frames) up to the first voice's first operator: the
\* mixing loop finds id(self.voices) unchanged and sends want_frames down
\* the chain; PhaseModulator.mono_out renders op3, then op2, then op1.
RndBegin(want_frames) ==
  /\ rnd.at = "idle"
  /\ stream.chain = "current"
  /\ stream.pc = "first" \/ stream.id_voices = "same"
  /\ want_frames < MAX_BUFFER => stream.short < MaxShortBlocks
  /\ stream' = [stream EXCEPT !.pc = "loop", !.id_voices = "same",
                              !.want_frames = want_frames,
                              !.short = ShortAfter(want_frames)]
  /\ rnd' = [RndIdle EXCEPT !.voice = 1, !.op = 3, !.at = "loop",
                            !.want_frames = want_frames]
  /\ obs' = NoObs
  /\ UNCHANGED <<voices, voices_lru, sustain_level, released_on_sustain,
                 trig_order, last, ctl, config, ir, rb, sl, mq>>

\* The operator that rnd is rendering.
RndOp == GetOp(voices[rnd.voice], rnd.op)

\* After an operator: the next one of the voice, the next voice, or the end
\* of the block, where the mixer yields its buffer. What was read of a
\* voice is kept while that voice is rendered.
RndAdvance ==
  IF rnd.op > 1
    THEN /\ rnd' = [rnd EXCEPT !.op = @ - 1, !.at = "loop"]
         /\ UNCHANGED <<stream, last, obs>>
    ELSE IF rnd.voice < Polyphony
      THEN /\ rnd' = [rnd EXCEPT !.voice = @ + 1, !.op = 3, !.at = "loop"]
           /\ obs' = NoObs
           /\ UNCHANGED <<stream, last>>
      ELSE /\ rnd' = RndIdle
           /\ obs' = NoObs
           /\ stream' = [stream EXCEPT !.out_len = MixOutLen(rnd.want_frames)]
           /\ last' = [op |-> "render", did |-> "mixed"]

\* Operator.mono_out, the top of one block: `if envelope.is_silent()`
\* writes zeros, else the loop over the samples of the modulator is
\* entered. Every operator is sent a modulator of want_frames samples.
RndLoop ==
  /\ rnd.at = "loop"
  /\ IF EnvIsSilent(RndOp.envelope)
       THEN /\ obs' = [obs EXCEPT ![rnd.op] =
                         [Unread EXCEPT !.seen = "silent"]]
            /\ rnd' = [rnd EXCEPT !.at = "reset"]
       ELSE /\ obs' = [obs EXCEPT ![rnd.op] =
                         [Unread EXCEPT !.seen = "read"]]
            /\ rnd' = [rnd EXCEPT !.at = "velocity", !.i = 1]
  /\ UNCHANGED <<voices, voices_lru, sustain_level, released_on_sustain,
                 stream, trig_order, last, ctl, config, ir, rb, sl, mq>>

\* One sample, `self.current_velocity * self.volume * envelope.advance()
\* * w[...]`: the read of current_velocity.
RndVelocity ==
  /\ rnd.at = "velocity"
  /\ rnd' = [rnd EXCEPT !.at = "advance",
                        !.velocity = RndOp.current_velocity]
  /\ UNCHANGED <<voices, voices_lru, sustain_level, released_on_sustain,
                 stream, trig_order, last, ctl, obs, config, ir, rb, sl, mq>>

\* One sample, the same expression: envelope.advance().
RndEnvelopeAdvance ==
  /\ rnd.at = "advance"
  /\ voices' = [voices EXCEPT ![rnd.voice] =
       SetOp(@, rnd.op,
             [RndOp EXCEPT !.envelope = EnvAdvance(@, AdrOf(rnd.op))])]
  /\ rnd' = [rnd EXCEPT !.at = "pitch"]
  /\ UNCHANGED <<voices_lru, sustain_level, released_on_sustain, stream,
                 trig_order, last, ctl, obs, config, ir, rb, sl, mq>>

\* One sample, `w_i += w_len * self.pitch / sample_rate`: the read of
\* pitch; then the next sample of the modulator, or the end of the loop.
RndPitch ==
  /\ rnd.at = "pitch"
  /\ obs' = [obs EXCEPT ![rnd.op].reads =
               @ \cup {<<RndOp.pitch, rnd.velocity>>}]
  /\ rnd' = IF rnd.i < Slice(MAX_BUFFER, rnd.want_frames)
              THEN [rnd EXCEPT !.at = "velocity", !.velocity = 0,
                               !.i = @ + 1]
              ELSE [rnd EXCEPT !.at = "reset", !.velocity = 0, !.i = 0]
  /\ UNCHANGED <<voices, voices_lru, sustain_level, released_on_sustain,
                 stream, trig_order, last, ctl, config, ir, rb, sl, mq>>

\* Operator.mono_out: `if self.reset: self.reset = False`
RndReset ==
  /\ rnd.at = "reset"
  /\ IF RndOp.reset
       THEN /\ voices' = [voices EXCEPT ![rnd.voice] =
                 SetOp(@, rnd.op, [RndOp EXCEPT !.reset = FALSE])]
            /\ rnd' = [rnd EXCEPT !.at = "env_reset"]
            /\ UNCHANGED <<stream, last, obs>>
       ELSE /\ RndAdvance
            /\ UNCHANGED voices
  /\ UNCHANGED <<voices_lru, sustain_level, released_on_sustain, trig_order,
                 ctl, config, ir, rb, sl, mq>>

\* Operator.mono_out: `envelope.reset()`, after the flag was cleared.
RndEnvReset ==
  /\ rnd.at = "env_reset"
  /\ voices' = [voices EXCEPT ![rnd.voice] =
       SetOp(@, rnd.op, [RndOp EXCEPT !.envelope = EnvReset(@)])]
  /\ RndAdvance
  /\ UNCHANGED <<voices_lru, sustain_level, released_on_sustain, trig_order,
                 ctl, config, ir, rb, sl, mq>>

\* The note_on calls played while the mixer runs, as <<note, velocity>>; an
\* operator that was never played holds DefaultPitch and velocity 0.
RaceNoteOns == {<<64, 50>>}

\* The frames of the blocks rendered meanwhile.
RaceFrameCounts == {2}

\* The note and the velocity that voice i was played with before, where
\* the run starts from a pool that has been played.
RacePlayed == [i \in Voices |-> <<59 + i, 100>>]

\* A voice after note_on(note, velocity), a block of MAX_BUFFER frames,
\* note_off(note) and a block that leaves `left` samples of op2's release,
\* the longest: op1 and op3 are silent again, op2 is not yet.
ReleasedVoice(nv, left) ==
  LET pitch == note_to_freq[nv[1]]
      played == VoiceMonoOut(VoiceNoteOn(NewVoice, pitch, nv[2]), MAX_BUFFER)
  IN VoiceMonoOut(VoiceNoteOff(played, pitch), Adr2[3] - left)

\* The two threads start from a new synthesizer, or from one whose voices
\* were all played and released, in the order of the list, and whose
\* release is about to end.
RaceInit ==
  /\ \/ /\ voices = [i \in Voices |-> NewVoice]
        /\ stream = [pc |-> "first", id_voices |-> "none",
                     chain |-> "current", want_frames |-> 0,
                     out_len |-> MAX_BUFFER, short |-> 0]
        /\ last = [op |-> "init", did |-> "built"]
     \/ /\ voices = [i \in Voices |-> ReleasedVoice(RacePlayed[i], 2)]
        /\ stream = [pc |-> "loop", id_voices |-> "same",
                     chain |-> "current", want_frames |-> Adr2[3] - 2,
                     out_len |-> MixOutLen(Adr2[3] - 2), short |-> 0]
        /\ last = [op |-> "render", did |-> "mixed"]
  /\ voices_lru = Range(Polyphony)
  /\ sustain_level = 0
  /\ released_on_sustain = {}
  /\ trig_order = Range(Polyphony)
  /\ ctl = CtlIdle
  /\ rnd = RndIdle
  /\ obs = NoObs
  /\ polyphony = Polyphony
  /\ panning = Panning(Polyphony)
  /\ out_sample = NoSample
  /\ ir = NoPerformance
  /\ rb = NoRedBlue
  /\ sl = NoSlew
  /\ mq = NoQueue

RaceNext ==
  \/ \E nv \in RaceNoteOns : CtlNoteOnBegin(nv[1], nv[2])
  \/ CtlIsSilentReset
  \/ CtlIsSilentEnvelope
  \/ CtlWrite
  \/ \E want_frames \in RaceFrameCounts : RndBegin(want_frames)
  \/ RndLoop
  \/ RndVelocity
  \/ RndEnvelopeAdvance
  \/ RndPitch
  \/ RndReset
  \/ RndEnvReset

RaceSpec == RaceInit /\ [][RaceNext]_vars

(* --------------------------------------------------------------- iridium *)
(* iridium.py stands between a keyboard and the Iridium: midi_consumer     *)
(* takes the keyboard's messages and its Performance sends messages to     *)
(* note_output. Messages are the bytes of the MIDI message without the     *)
(* channel bits, <<status, data1, data2>> for most: the input is on        *)
(* in_channel and all output goes to out_channel.                          *)

\* Performance.polyphony, from the configuration.
IrPolyphony == 2

\* Performance(...) as main builds it.
NewPerformance(catch_damper, start_stop) ==
  [pc |-> "start", catch_damper |-> catch_damper, start_stop |-> start_stop,
   is_sustain |-> FALSE, notes_down |-> <<>>, notes_sustained |-> <<>>,
   last_expr |-> -1, last_mod |-> -1, did |-> "init", sent |-> <<>>,
   on |-> {}, doubled |-> FALSE, inp |-> <<>>]

\* The notes switched on at the receiver of note_output once msg arrived:
\* NOTE_ON adds its note, NOTE_OFF removes it, all-notes-off removes all.
OnAfter(on, msg) ==
  IF msg[1] = NOTE_ON THEN on \cup {msg[2]}
  ELSE IF msg[1] = NOTE_OFF THEN on \ {msg[2]}
  ELSE IF msg[1] = CONTROL_CHANGE /\ msg[2] = ALL_NOTES_OFF THEN {}
  ELSE on

\* note_output.send_message(msg); doubled records a NOTE_ON for a note that
\* is switched on already.
Send(p, msg) ==
  [p EXCEPT !.sent = Append(@, msg),
            !.on = OnAfter(@, msg),
            !.doubled = @ \/ (msg[1] = NOTE_ON /\ msg[2] \in p.on)]

\* Performance.out / Performance.cc
Out(p, event, note, volume) == Send(p, <<event, note, volume>>)

Cc(p, type, value) == Send(p, <<CONTROL_CHANGE, type, value>>)

\* Performance.at / Performance.pc / Performance.bend
At(p, note, value) == Send(p, <<POLY_AFTERTOUCH, note, value>>)

Pc(p, program) == Send(p, <<PROGRAM_CHANGE, program>>)

Bend(p, msb, lsb) == Send(p, <<PITCH_BEND, msb, lsb>>)

\* Performance.clock_eager
ClockEager(p) == Send(p, <<CLOCK>>)

\* iridium.py: MODULATION_CC = set(range(16, 32)) | {BANK_SELECT,
\* BANK_SELECT_LSB}
MODULATION_CC == (16 .. 31) \cup {BANK_SELECT, BANK_SELECT_LSB}

\* midi.silence(port, stop=stop, channels=...): what it sends to each of
\* the channels, after STOP.
Silence(p, stop) ==
  LET p1 == IF stop THEN Send(p, <<STOP>>) ELSE p
  IN Cc(Cc(p1, SUSTAIN_PEDAL, 0), ALL_NOTES_OFF, 0)

\* The first position of note in lst, or 0: the loops
\* `for i, n in enumerate(lst): if n == note: lst.pop(i); break`.
FirstIndex(lst, note) ==
  IF \E i \in 1 .. Len(lst) : lst[i] = note
    THEN CHOOSE i \in 1 .. Len(lst) :
           lst[i] = note /\ \A j \in 1 .. i - 1 : lst[j] # note
    ELSE 0

PopFirst(lst, note) ==
  IF FirstIndex(lst, note) = 0 THEN lst ELSE Pop(lst, FirstIndex(lst, note))

\* MakeRoom switching off held notes before pedal-sustained ones.
RECURSIVE MakeRoomHeldFirst(_)
MakeRoomHeldFirst(p) ==
  IF Len(p.notes_sustained) + Len(p.notes_down) < IrPolyphony
    THEN p
    ELSE IF p.notes_down # <<>>
      THEN MakeRoomHeldFirst(Out([p EXCEPT !.notes_down = Tail(@)],
                                 NOTE_OFF, Head(p.notes_down), 0))
      ELSE MakeRoomHeldFirst(Out([p EXCEPT !.notes_sustained = Tail(@)],
                                 NOTE_OFF, Head(p.notes_sustained), 0))

\* own_note_on: `while len(notes_sustained) + len(notes_down) >= polyphony`,
\* switching off pedal-sustained notes before held ones, oldest first.
RECURSIVE MakeRoom(_)
MakeRoom(p) ==
  IF Len(p.notes_sustained) + Len(p.notes_down) < IrPolyphony
    THEN p
    ELSE IF p.notes_sustained # <<>>
      THEN MakeRoom(Out([p EXCEPT !.notes_sustained = Tail(@)],
                        NOTE_OFF, Head(p.notes_sustained), 0))
      ELSE MakeRoom(Out([p EXCEPT !.notes_down = Tail(@)],
                        NOTE_OFF, Head(p.notes_down), 0))

\* own_note_on without the search for the note among those sounding.
own_note_onNoSearch(p, note, velocity) ==
  LET p3 == MakeRoom(p)
  IN Out([p3 EXCEPT !.notes_down = Append(@, note)], NOTE_ON, note, velocity)

\* own_note_on with the search but without the NOTE_OFF for what it found.
own_note_onNoOff(p, note, velocity) ==
  LET p1 == [p EXCEPT !.notes_sustained = PopFirst(@, note),
                      !.notes_down = PopFirst(@, note)]
      p3 == MakeRoom(p1)
  IN Out([p3 EXCEPT !.notes_down = Append(@, note)], NOTE_ON, note, velocity)

\* Performance.own_note_on
own_note_on(p, note, velocity) ==
  LET off == FirstIndex(p.notes_sustained, note) # 0
               \/ FirstIndex(p.notes_down, note) # 0
      p1 == [p EXCEPT !.notes_sustained = PopFirst(@, note),
                      !.notes_down = PopFirst(@, note)]
      p2 == IF off THEN Out(p1, NOTE_OFF, note, 0) ELSE p1
      p3 == MakeRoom(p2)
  IN Out([p3 EXCEPT !.notes_down = Append(@, note)], NOTE_ON, note, velocity)

\* Performance.own_note_off
own_note_off(p, note, velocity) ==
  LET was_down == FirstIndex(p.notes_down, note) # 0
      p1 == [p EXCEPT !.notes_down = PopFirst(@, note)]
      p2 == IF p.is_sustain
              THEN [p1 EXCEPT !.notes_sustained =
                                Append(PopFirst(@, note), note)]
              ELSE p1
      off == was_down /\ ~p.is_sustain
  IN IF off THEN Out(p2, NOTE_OFF, note, velocity) ELSE p2

\* ReleaseSustained taking the newest note first (pop() for pop(0)).
RECURSIVE ReleaseSustainedNewestFirst(_)
ReleaseSustainedNewestFirst(p) ==
  IF p.notes_sustained = <<>>
    THEN p
    ELSE ReleaseSustainedNewestFirst(
           Out([p EXCEPT !.notes_sustained = SubSeq(@, 1, Len(@) - 1)],
               NOTE_OFF, p.notes_sustained[Len(p.notes_sustained)], 0))

\* own_sustain: `while self.notes_sustained: out(NOTE_OFF, pop(0), 0)`
RECURSIVE ReleaseSustained(_)
ReleaseSustained(p) ==
  IF p.notes_sustained = <<>>
    THEN p
    ELSE ReleaseSustained(Out([p EXCEPT !.notes_sustained = Tail(@)],
                              NOTE_OFF, Head(p.notes_sustained), 0))

\* Performance.own_sustain
own_sustain(p, value) ==
  IF value = 0
    THEN ReleaseSustained([p EXCEPT !.is_sustain = FALSE])
    ELSE [p EXCEPT !.is_sustain = TRUE]

\* Performance.sustain_passthrough
sustain_passthrough(p, value) == Cc(p, SUSTAIN_PEDAL, value)

\* Performance.note_on_passthrough / note_off_passthrough
note_on_passthrough(p, note, velocity) == Out(p, NOTE_ON, note, velocity)

note_off_passthrough(p, note, velocity) == Out(p, NOTE_OFF, note, velocity)

\* __post_init__ with the pedal handler bound to sustain_passthrough
\* whatever catch_damper says.
PerfSustainAlwaysPassthrough(p, value) == sustain_passthrough(p, value)

\* Performance.__post_init__: the handlers bound at construction.
PerfSustain(p, value) ==
  IF p.catch_damper THEN own_sustain(p, value)
                    ELSE sustain_passthrough(p, value)

PerfNoteOn(p, note, velocity) ==
  IF p.catch_damper THEN own_note_on(p, note, velocity)
                    ELSE note_on_passthrough(p, note, velocity)

PerfNoteOff(p, note, velocity) ==
  IF p.catch_damper THEN own_note_off(p, note, velocity)
                    ELSE note_off_passthrough(p, note, velocity)

\* Performance.mod_wheel / Performance.expression: repeated values dropped.
PerfModWheel(p, value) ==
  IF p.last_mod = value THEN p
  ELSE Cc([p EXCEPT !.last_mod = value], MOD_WHEEL, value)

\* expression passing the foot pedal on as it came, every time.
PerfExpressionRaw(p, value) == Cc(p, FOOT_PEDAL, value)

PerfExpression(p, value) ==
  IF p.last_expr = value THEN p
  ELSE Cc([p EXCEPT !.last_expr = value], EXPRESSION_PEDAL, value)

\* Performance.stop / Performance.start
PerfStop(p) ==
  [Silence(p, p.start_stop) EXCEPT !.notes_down = <<>>,
                                   !.notes_sustained = <<>>]

PerfStart(p) == IF p.start_stop THEN Send(p, <<START>>) ELSE p

\* One handler call: sent holds what this call sends, did names the call.
Begin(p) == [p EXCEPT !.sent = <<>>, !.doubled = FALSE]

\* inp is the incoming message the call handled (<<>> when there was none).
Done(p, name, msg) == [p EXCEPT !.did = name, !.inp = msg]

\* The inputs of the iridium specification.
IrNotes == {60, 64, 67}

IrVelocities == {100}

IrValues == {0, 64}

\* Other control changes that come in, as <<type, value>>: two of
\* MODULATION_CC and one the consumer does not handle.
IrControls == {<<BANK_SELECT, 0>>, <<16, 64>>, <<7, 64>>}

\* The <<note, value>> of POLY_AFTERTOUCH, the programs of PROGRAM_CHANGE
\* and the <<msb, lsb>> of PITCH_BEND.
IrAftertouches == {<<60, 50>>}

IrPrograms == {5}

IrBends == {<<0, 64>>}

\* midi_consumer, before its loop: silence(note_output, channels=[out]).
IrConsumerStart ==
  /\ ir.pc = "start"
  /\ ir' = [Done(Silence(Begin(ir), TRUE), "silence", <<>>) EXCEPT !.pc = "loop"]
  /\ UNCHANGED <<synth, rb, sl, mq>>

\* midi_consumer, one message of the loop, by its branch.
IrStart ==
  /\ ir.pc = "loop"
  /\ ir' = Done(PerfStart(Begin(ir)), "start", <<START>>)
  /\ UNCHANGED <<synth, rb, sl, mq>>

IrStop ==
  /\ ir.pc = "loop"
  /\ ir' = Done(PerfStop(Begin(ir)), "stop", <<STOP>>)
  /\ UNCHANGED <<synth, rb, sl, mq>>

IrNoteOn(note, velocity) ==
  /\ ir.pc = "loop"
  /\ ir' = Done(PerfNoteOn(Begin(ir), note, velocity), "note_on",
                <<NOTE_ON, note, velocity>>)
  /\ UNCHANGED <<synth, rb, sl, mq>>

IrNoteOff(note, velocity) ==
  /\ ir.pc = "loop"
  /\ ir' = Done(PerfNoteOff(Begin(ir), note, velocity), "note_off",
                <<NOTE_OFF, note, velocity>>)
  /\ UNCHANGED <<synth, rb, sl, mq>>

IrModWheel(value) ==
  /\ ir.pc = "loop"
  /\ ir' = Done(PerfModWheel(Begin(ir), value), "mod_wheel",
                <<CONTROL_CHANGE, MOD_WHEEL, value>>)
  /\ UNCHANGED <<synth, rb, sl, mq>>

\* FOOT_PEDAL or EXPRESSION_PEDAL came in.
IrExpression(type, value) ==
  /\ ir.pc = "loop"
  /\ type \in {FOOT_PEDAL, EXPRESSION_PEDAL}
  /\ ir' = Done(PerfExpression(Begin(ir), value), "expression",
                <<CONTROL_CHANGE, type, value>>)
  /\ UNCHANGED <<synth, rb, sl, mq>>

IrSustain(value) ==
  /\ ir.pc = "loop"
  /\ ir' = Done(PerfSustain(Begin(ir), value), "sustain",
                <<CONTROL_CHANGE, SUSTAIN_PEDAL, value>>)
  /\ UNCHANGED <<synth, rb, sl, mq>>

\* A controller of MODULATION_CC is passed on; any other that no branch
\* above takes only prints a warning.
IrCc(type, value) ==
  /\ ir.pc = "loop"
  /\ type \notin {MOD_WHEEL, FOOT_PEDAL, EXPRESSION_PEDAL, SUSTAIN_PEDAL,
                  ALL_NOTES_OFF, ALL_SOUND_OFF}
  /\ ir' = Done(IF type \in MODULATION_CC THEN Cc(Begin(ir), type, value)
                                          ELSE Begin(ir),
                "cc", <<CONTROL_CHANGE, type, value>>)
  /\ UNCHANGED <<synth, rb, sl, mq>>

\* CLOCK: performance.clock_eager(), before the channel is looked at.
IrClock ==
  /\ ir.pc = "loop"
  /\ ir' = Done(ClockEager(Begin(ir)), "clock", <<CLOCK>>)
  /\ UNCHANGED <<synth, rb, sl, mq>>

IrAftertouch(note, value) ==
  /\ ir.pc = "loop"
  /\ ir' = Done(At(Begin(ir), note, value), "at",
                <<POLY_AFTERTOUCH, note, value>>)
  /\ UNCHANGED <<synth, rb, sl, mq>>

IrPitchBend(msb, lsb) ==
  /\ ir.pc = "loop"
  /\ ir' = Done(Bend(Begin(ir), msb, lsb), "bend", <<PITCH_BEND, msb, lsb>>)
  /\ UNCHANGED <<synth, rb, sl, mq>>

IrProgramChange(program) ==
  /\ ir.pc = "loop"
  /\ ir' = Done(Pc(Begin(ir), program), "pc", <<PROGRAM_CHANGE, program>>)
  /\ UNCHANGED <<synth, rb, sl, mq>>

IrAllNotesOff(value) ==
  /\ ir.pc = "loop"
  /\ ir' = Done(Cc(Cc(Begin(ir), ALL_NOTES_OFF, value), SUSTAIN_PEDAL, 0),
                "all_notes_off", <<CONTROL_CHANGE, ALL_NOTES_OFF, value>>)
  /\ UNCHANGED <<synth, rb, sl, mq>>

IrAllSoundOff(value) ==
  /\ ir.pc = "loop"
  /\ ir' = Done(Cc(Cc(Begin(ir), ALL_SOUND_OFF, value), SUSTAIN_PEDAL, 0),
                "all_sound_off", <<CONTROL_CHANGE, ALL_SOUND_OFF, value>>)
  /\ UNCHANGED <<synth, rb, sl, mq>>

\* async_main, on cancellation: silence(note_output); the consumer is
\* gone, or was never started when the cancellation comes while
\* async_main awaits serialosc.connect().
IrCancel ==
  /\ ir.pc \in {"start", "loop"}
  /\ ir' = [Done(Silence(Begin(ir), TRUE), "cancel", <<>>) EXCEPT !.pc = "done"]
  /\ UNCHANGED <<synth, rb, sl, mq>>

IrInit ==
  /\ voices = [i \in Voices |-> NewVoice]
  /\ voices_lru = Range(Polyphony)
  /\ sustain_level = 0
  /\ released_on_sustain = {}
  /\ stream = [pc |-> "first", id_voices |-> "none", chain |-> "current",
               want_frames |-> 0, out_len |-> MAX_BUFFER, short |-> 0]
  /\ trig_order = Range(Polyphony)
  /\ last = [op |-> "init", did |-> "built"]
  /\ ctl = CtlIdle
  /\ rnd = RndIdle
  /\ obs = NoObs
  /\ polyphony = Polyphony
  /\ panning = Panning(Polyphony)
  /\ out_sample = NoSample
  /\ \E catch_damper \in BOOLEAN, start_stop \in BOOLEAN :
       ir = NewPerformance(catch_damper, start_stop)
  /\ rb = NoRedBlue
  /\ sl = NoSlew
  /\ mq = NoQueue

IrNext ==
  \/ IrConsumerStart
  \/ IrStart
  \/ IrStop
  \/ \E note \in IrNotes, velocity \in IrVelocities : IrNoteOn(note, velocity)
  \/ \E note \in IrNotes, velocity \in IrVelocities : IrNoteOff(note, velocity)
  \/ \E value \in IrValues : IrModWheel(value)
  \/ \E type \in {FOOT_PEDAL, EXPRESSION_PEDAL}, value \in IrValues :
       IrExpression(type, value)
  \/ \E value \in IrValues : IrSustain(value)
  \/ \E c \in IrControls : IrCc(c[1], c[2])
  \/ IrClock
  \/ \E a \in IrAftertouches : IrAftertouch(a[1], a[2])
  \/ \E b \in IrBends : IrPitchBend(b[1], b[2])
  \/ \E program \in IrPrograms : IrProgramChange(program)
  \/ \E value \in IrValues : IrAllNotesOff(value)
  \/ \E value \in IrValues : IrAllSoundOff(value)
  \/ IrCancel

IrSpec == IrInit /\ [][IrNext]_vars

(* ------------------------------------------------------------------ slew *)
(* slew.py: SlewGenerator.update() fills the request slot _new_value; the  *)
(* generator's task takes the request and calls the callback `steps` times *)
(* with values stepping from current_value to the requested one. A request *)
(* is <<v>> for update(v) and <<a, b>> for update((a, b)); <<>> is None.    *)
(* The task runs on the event loop: update() can only run where the task    *)
(* awaits, which is where its actions begin and end.                        *)

\* SlewGenerator.steps of the generator followed, and the number of
\* requests its task takes in a behaviour.
Steps == 4
MaxRequests == 2

\* Values are kept as integers on the scale 1 / Steps^MaxRequests, which
\* holds every value MaxRequests interpolations can produce exactly.
Scale == Steps ^ MaxRequests

\* SlewGenerator(name, callback, steps=Steps), its task at the first sleep.
NewSlew ==
  [pc |-> "wait", steps |-> Steps, scale |-> Scale, new_value |-> <<>>,
   current_value |-> 0, target |-> 0, step |-> 0, calls |-> 0, value |-> 0,
   called |-> <<>>, taken |-> 0, last_update |-> <<>>, since |-> 0,
   hit |-> FALSE]

\* update() that leaves a request that is waiting in the slot alone.
SlUpdateCallKeepFirst(g, request) ==
  [g EXCEPT !.new_value = IF @ = <<>> THEN request ELSE @,
            !.last_update = request, !.since = 0, !.hit = FALSE]

\* SlewGenerator.update. History: last_update is the request of the call,
\* since counts the callback calls made after it, and hit tells whether
\* one of them was called with the value it asks for.
SlUpdateCall(g, request) ==
  [g EXCEPT !.new_value = request, !.last_update = request,
            !.since = 0, !.hit = FALSE]

\* task: self.callback(current_value) has been called, as g.called says;
\* the history of the last update() is brought up to date.
Counted(g) ==
  [g EXCEPT !.since = @ + 1,
            !.hit = @ \/ (/\ g.last_update # <<>>
                          /\ g.called =
                               <<g.last_update[Len(g.last_update)] * g.scale>>)]

\* The value a request asks for, on the scale.
Requested(request) == request[Len(request)] * Scale

\* task: the request is taken under the lock, the step computed, and the
\* first pass of the for loop calls the callback and awaits it.
TakeAndCall(g) ==
  LET from == IF Len(g.new_value) = 2 THEN g.new_value[1] * g.scale
                                      ELSE g.current_value
      new_value == g.new_value[Len(g.new_value)] * g.scale
      step == TruncDiv(new_value - from, g.steps)
  IN Counted([g EXCEPT !.pc = "called", !.new_value = <<>>,
                        !.target = new_value,
                        !.step = step, !.current_value = from + step,
                        !.called = <<from + step>>, !.calls = 1,
                        !.taken = @ + 1])

\* task, where the for loop is left: self.value = current_value, and the
\* `while self._new_value is None` loop entered again.
LeaveLoop(g) ==
  LET g1 == [g EXCEPT !.value = g.current_value]
  IN IF g1.new_value = <<>> THEN [g1 EXCEPT !.pc = "wait"]
                            ELSE TakeAndCall(g1)

\* The inputs of the slew specification.
SlRequests == {<<0>>, <<2>>, <<3, 1>>}

notSl == <<synth, ir, rb, mq>>

\* Someone calls update(request) while the task awaits.
SlUpdate(request) ==
  /\ sl.pc \in {"wait", "called", "sleeping"}
  /\ sl.taken + (IF sl.new_value = <<>> THEN 1 ELSE 0) <= MaxRequests
  /\ sl' = SlUpdateCall(sl, request)
  /\ UNCHANGED notSl

\* The task wakes in its waiting loop and finds a request.
SlTaskWake ==
  /\ sl.pc = "wait"
  /\ sl.new_value # <<>>
  /\ sl' = TakeAndCall(sl)
  /\ UNCHANGED notSl

\* The callback has returned: `if self._new_value is not None: break`,
\* else sleep.
SlTaskAfterCallback ==
  /\ sl.pc = "called"
  /\ sl' = IF sl.new_value # <<>> THEN LeaveLoop(sl)
                                 ELSE [sl EXCEPT !.pc = "sleeping"]
  /\ UNCHANGED notSl

\* The sleep is over: the next pass of the for loop, or its end.
SlTaskAfterSleep ==
  /\ sl.pc = "sleeping"
  /\ sl' = IF sl.calls = sl.steps
             THEN LeaveLoop(sl)
             ELSE Counted([sl EXCEPT !.pc = "called",
                                     !.current_value = @ + sl.step,
                                     !.called = <<sl.current_value + sl.step>>,
                                     !.calls = @ + 1])
  /\ UNCHANGED notSl

SlInit ==
  /\ voices = [i \in Voices |-> NewVoice]
  /\ voices_lru = Range(Polyphony)
  /\ sustain_level = 0
  /\ released_on_sustain = {}
  /\ stream = [pc |-> "first", id_voices |-> "none", chain |-> "current",
               want_frames |-> 0, out_len |-> MAX_BUFFER, short |-> 0]
  /\ trig_order = Range(Polyphony)
  /\ last = [op |-> "init", did |-> "built"]
  /\ ctl = CtlIdle
  /\ rnd = RndIdle
  /\ obs = NoObs
  /\ polyphony = Polyphony
  /\ panning = Panning(Polyphony)
  /\ out_sample = NoSample
  /\ ir = NoPerformance
  /\ rb = NoRedBlue
  /\ sl = NewSlew
  /\ mq = NoQueue

SlTask == SlTaskWake \/ SlTaskAfterCallback \/ SlTaskAfterSleep

SlNext ==
  \/ \E request \in SlRequests : SlUpdate(request)
  \/ SlTaskWake
  \/ SlTaskAfterCallback
  \/ SlTaskAfterSleep

\* The event loop runs the task whenever its sleep or its callback is over.
SlSpec == SlInit /\ [][SlNext]_vars /\ WF_vars(SlTask)

(* --------------------------------------------------------------- redblue *)
(* redblue.py plays two Mother 32 synthesizers, Red and Blue, from one     *)
(* keyboard. A message sent is <<port, status, data1, data2>> with port     *)
(* "red" or "blue"; the held notes are the dict Performance.notes, kept as  *)
(* the sequence of its <<note, mode>> items in insertion order.             *)

\* notes.py: A[0], Bb[0] (= As[0]) and B[0]
A0 == 21
Bb0 == 22
B0 == 23

\* Performance(...) as async_main builds it from the configuration; the mod
\* wheel goes to Red and the expression pedal to Blue.
NewRedBlue(portamento, start_stop, pass_clock) ==
  [pc |-> "start", portamento |-> portamento, start_stop |-> start_stop,
   pass_clock |-> pass_clock, accent_volume |-> 100, damper_portamento_max |-> 64,
   expression_min |-> 0, expression_max |-> 127,
   power_chord |-> FALSE, duophon |-> FALSE, notes |-> <<>>,
   last_color |-> "BLUE", is_accent |-> FALSE, is_portamento |-> FALSE,
   last_expression_value |-> 64, expression_last_sent |-> -1,
   slew_request |-> <<>>, did |-> "init", sent |-> <<>>]

\* port.send_message(msg)
RbSend(p, port, msg) == [p EXCEPT !.sent = Append(@, <<port>> \o msg)]

\* Performance.send_once, with Red and Blue on different ports
SendOnce(p, msg) == RbSend(RbSend(p, "red", msg), "blue", msg)

\* Performance.red / blue / both
Red(p, event, note, volume) == RbSend(p, "red", <<event, note, volume>>)

Blue(p, event, note, volume) == RbSend(p, "blue", <<event, note, volume>>)

Both(p, event, note, volume) ==
  Blue(Red(p, event, note, volume), event, note, volume)

\* Performance.cc_red / cc_blue / cc_both
CcRed(p, type, value) == RbSend(p, "red", <<CONTROL_CHANGE, type, value>>)

CcBlue(p, type, value) == RbSend(p, "blue", <<CONTROL_CHANGE, type, value>>)

CcBoth(p, type, value) == CcBlue(CcRed(p, type, value), type, value)

\* dict operations on the item sequence: `key in d`, d[key] = value (a key
\* that is there keeps its place), d.pop(key, default).
DictHas(d, key) == \E i \in 1 .. Len(d) : d[i][1] = key

DictIndex(d, key) == CHOOSE i \in 1 .. Len(d) : d[i][1] = key

DictSet(d, key, value) ==
  IF DictHas(d, key)
    THEN [d EXCEPT ![DictIndex(d, key)] = <<key, value>>]
    ELSE Append(d, <<key, value>>)

DictGet(d, key, default) ==
  IF DictHas(d, key) THEN d[DictIndex(d, key)][2] ELSE default

DictRemove(d, key) ==
  IF DictHas(d, key) THEN Pop(d, DictIndex(d, key)) ELSE d

\* Performance.legato_portamento. With the note equal to the last held one
\* neither branch assigns p_time: the second cc_both raises
\* UnboundLocalError, after the first was sent.
LegatoRaises(p, note) ==
  /\ p.portamento = "legato"
  /\ p.notes # <<>>
  /\ p.notes[Len(p.notes)][1] = note

legato_portamento(p, note) ==
  IF p.portamento # "legato" THEN p
  ELSE IF p.notes # <<>>
    THEN LET last_note == p.notes[Len(p.notes)][1]
             p1 == CcBoth(p, PORTAMENTO, 127)
         IN IF note > last_note
              THEN [CcBoth(p1, PORTAMENTO_TIME, 64)
                      EXCEPT !.is_portamento = TRUE]
            ELSE IF note < last_note
              THEN [CcBoth(p1, PORTAMENTO_TIME, 80)
                      EXCEPT !.is_portamento = TRUE]
            ELSE [p1 EXCEPT !.pc = "dead"]
    ELSE [CcBoth(CcBoth(p, PORTAMENTO, 0), PORTAMENTO_TIME, 0)
            EXCEPT !.is_portamento = FALSE]

\* Performance.damper_portamento: the state after it, and what it returns.
damper_portamento(p, value) ==
  IF p.portamento \notin {"sustain", "damper"} THEN p
  ELSE IF value = 0
    THEN [CcBoth(CcBoth(p, PORTAMENTO, 0), PORTAMENTO_TIME, 0)
            EXCEPT !.is_portamento = FALSE]
    ELSE [CcBoth(CcBoth(p, PORTAMENTO, 127), PORTAMENTO_TIME,
                 TruncDiv(p.damper_portamento_max * value, 127))
            EXCEPT !.is_portamento = TRUE]

DamperPassesSustain(p) == p.portamento \notin {"damper"}

\* int(round(n / scale)): Python rounds a half to the even neighbour.
RoundHalfEven(n, scale) ==
  LET q == n \div scale
      r == n % scale
  IN IF 2 * r < scale THEN q
     ELSE IF 2 * r > scale THEN q + 1
     ELSE IF q % 2 = 0 THEN q ELSE q + 1

\* Performance._expression_cb(cc_slew), with the pedal's target cc_blue;
\* cc is int(round(cc_slew)).
ExpressionCb(p, cc) ==
  IF cc = p.expression_last_sent THEN p
  ELSE CcBlue([p EXCEPT !.expression_last_sent = cc], MOD_WHEEL, cc)

\* expression_scale = interp1d([0, 127], [expression_min, expression_max])
ExpressionScale(p, value) ==
  TruncDiv(p.expression_min * 127
             + (p.expression_max - p.expression_min) * value, 127)

\* Performance.expression(value, accent); accent is "none" (None), "on"
\* (True) or "off" (False). slew_request is the slew_value that the call
\* hands to expression_slew.update().
RbExpressionCall(p, value, accent) ==
  LET scaled_value == ExpressionScale(p, value)
      p1 == [p EXCEPT !.last_expression_value = value]
  IN IF accent = "on"
       THEN [ExpressionCb(p1, Min(scaled_value + 32, 127))
               EXCEPT !.slew_request =
                        <<Min(scaled_value + 32, 127), scaled_value>>]
       ELSE [p1 EXCEPT !.slew_request = <<scaled_value>>]

\* Performance.note_on, the duophonic branch: the synthesizer chosen.
\* closest_mode is the mode of the last item at the smallest distance.
CountMode(d, mode) == Cardinality({i \in 1 .. Len(d) : d[i][2] = mode})

Abs(n) == IF n < 0 THEN - n ELSE n

ClosestMode(d, note) ==
  IF d = <<>> THEN "REGULAR"
  ELSE LET best == CHOOSE i \in 1 .. Len(d) :
                     /\ \A j \in 1 .. Len(d) :
                          Abs(note - d[i][1]) <= Abs(note - d[j][1])
                     /\ \A j \in i + 1 .. Len(d) :
                          Abs(note - d[i][1]) < Abs(note - d[j][1])
       IN d[best][2]

\* The choice with the two colours swapped in the last branch: the
\* synthesizer used last is taken again when both are busy.
UseChannelSticky(p, note) ==
  LET red_notes == CountMode(p.notes, "RED")
      blue_notes == CountMode(p.notes, "BLUE")
  IN IF p.is_portamento THEN ClosestMode(p.notes, note)
     ELSE IF p.last_color = "RED"
       THEN IF blue_notes = 0 THEN "BLUE"
            ELSE IF red_notes = 0 THEN "RED" ELSE "RED"
       ELSE IF red_notes = 0 THEN "RED"
            ELSE IF blue_notes = 0 THEN "BLUE" ELSE "BLUE"

UseChannel(p, note) ==
  LET red_notes == CountMode(p.notes, "RED")
      blue_notes == CountMode(p.notes, "BLUE")
  IN IF p.is_portamento THEN ClosestMode(p.notes, note)
     ELSE IF p.last_color = "RED"
       THEN IF blue_notes = 0 THEN "BLUE"
            ELSE IF red_notes = 0 THEN "RED" ELSE "BLUE"
       ELSE IF red_notes = 0 THEN "RED"
            ELSE IF blue_notes = 0 THEN "BLUE" ELSE "RED"

\* Performance.note_on without the three mode keys: every key is a note.
RbNoteOnCallNoModeKeys(p, note, volume) ==
  Both([p EXCEPT !.notes = DictSet(@, note, "REGULAR")],
       NOTE_ON, note, volume)

\* Performance.note_on
RbNoteOnCall(p, note, volume) ==
  IF note = A0 THEN [p EXCEPT !.power_chord = FALSE, !.duophon = FALSE]
  ELSE IF note = Bb0 THEN [p EXCEPT !.power_chord = FALSE, !.duophon = TRUE]
  ELSE IF note = B0 THEN [p EXCEPT !.power_chord = TRUE, !.duophon = FALSE]
  ELSE
    LET was_accent == p.is_accent
        is_accent == (was_accent /\ Len(p.notes) > 0)
                       \/ volume >= p.accent_volume
        p1 == [p EXCEPT !.is_accent = is_accent]
        p2 == IF is_accent # was_accent
                THEN RbExpressionCall(p1, p1.last_expression_value,
                                      IF is_accent THEN "on" ELSE "off")
                ELSE p1
    IN IF p2.power_chord
         THEN Blue(Red([p2 EXCEPT !.notes = DictSet(@, note, "POWER")],
                       NOTE_ON, note, volume),
                   NOTE_ON, note + 7, volume)
       ELSE IF p2.duophon
         THEN LET use_channel == UseChannel(p2, note)
                  p3 == [p2 EXCEPT !.notes = DictSet(@, note, use_channel),
                                   !.last_color = use_channel]
              IN IF use_channel = "RED"
                   THEN Red(p3, NOTE_ON, note, volume)
                   ELSE Blue(p3, NOTE_ON, note, volume)
       ELSE Both([p2 EXCEPT !.notes = DictSet(@, note, "REGULAR")],
                 NOTE_ON, note, volume)

\* Performance.note_off
RbNoteOffCall(p, note) ==
  IF note \in {A0, Bb0, B0} THEN p
  ELSE
    LET mode == DictGet(p.notes, note, "REGULAR")
        p1 == [p EXCEPT !.notes = DictRemove(@, note)]
    IN IF mode = "POWER"
         THEN Blue(Red(p1, NOTE_OFF, note, 0), NOTE_OFF, note + 7, 0)
       ELSE IF mode = "RED" THEN Red(p1, NOTE_OFF, note, 0)
       ELSE IF mode = "BLUE" THEN Blue(p1, NOTE_OFF, note, 0)
       ELSE Both(p1, NOTE_OFF, note, 0)

\* midi.silence(port, channels=[channel]) for one of the two ports
RbSilence(p, port) ==
  RbSend(RbSend(RbSend(p, port, <<STOP>>),
                port, <<CONTROL_CHANGE, SUSTAIN_PEDAL, 0>>),
         port, <<CONTROL_CHANGE, ALL_NOTES_OFF, 0>>)

\* Performance.stop
RbStopCall(p) ==
  LET p1 == IF p.start_stop THEN SendOnce(p, <<STOP>>) ELSE p
  IN [CcBlue(CcRed(p1, ALL_NOTES_OFF, 0), ALL_NOTES_OFF, 0)
        EXCEPT !.notes = <<>>]

\* Performance.start
RbStartCall(p) == IF p.start_stop THEN SendOnce(p, <<START>>) ELSE p

\* Performance.clock
RbClockCall(p) == IF p.pass_clock THEN SendOnce(p, <<CLOCK>>) ELSE p

\* One handler call of redblue's midi_consumer: sent holds what the call
\* sends, slew_request what it asks of the slew generator, did names it.
RbBegin(p) == [p EXCEPT !.sent = <<>>, !.slew_request = <<>>]

RbDone(p, name) == [p EXCEPT !.did = name]

\* The inputs of the redblue specification.
RbKeys == {A0, Bb0, B0, 60, 64}

RbVolumes == {50, 120}

\* Pedal values, and the value of the other controllers.
RbValues == {0, 64}

RbExpressionValues == {64}

RbPortamentoModes == {"legato", "damper", "false"}

\* The <<msb, lsb>> of PITCH_BEND and the <<note, value>> of
\* POLY_AFTERTOUCH.
RbBends == {<<0, 64>>}

RbAftertouches == {<<60, 50>>}

\* SlewGenerator("expression slew", callback=self._expression_cb): steps
\* keeps its default. The scale holds the values of MaxRequests
\* interpolations exactly.
DefaultSteps == 128

RbNewSlew ==
  [NewSlew EXCEPT !.steps = DefaultSteps,
                  !.scale = DefaultSteps ^ MaxRequests]

\* expression_slew after a handler call that left p: update(slew_value)
\* if the call made one.
SlewAfter(g, p) ==
  IF p.slew_request = <<>> THEN g ELSE SlUpdateCall(g, p.slew_request)

\* The variables redblue.py leaves alone, and those a handler that does
\* not reach the slew generator leaves alone.
notRedBlue == <<synth, ir, mq>>

notRb == <<synth, ir, sl, mq>>

\* midi_consumer, before its loop: silence() on both ports.
RbConsumerStart ==
  /\ rb.pc = "start"
  /\ rb' = [RbDone(RbSilence(RbSilence(RbBegin(rb), "red"), "blue"),
                   "silence") EXCEPT !.pc = "loop"]
  /\ UNCHANGED notRb

RbStart ==
  /\ rb.pc = "loop"
  /\ rb' = RbDone(RbStartCall(RbBegin(rb)), "start")
  /\ UNCHANGED notRb

RbStop ==
  /\ rb.pc = "loop"
  /\ rb' = RbDone(RbStopCall(RbBegin(rb)), "stop")
  /\ UNCHANGED notRb

\* NOTE_ON: legato_portamento(msg[1]), then note_on(msg[1], msg[2]).
RbNoteOn(note, volume) ==
  /\ rb.pc = "loop"
  /\ LET p1 == legato_portamento(RbBegin(rb), note)
         p2 == IF p1.pc = "dead" THEN p1 ELSE RbNoteOnCall(p1, note, volume)
     IN /\ rb' = RbDone(p2, "note_on")
        /\ sl' = SlewAfter(sl, p2)
  /\ UNCHANGED notRedBlue

\* NOTE_OFF: note_off(msg[1]), then legato_portamento(msg[1]).
RbNoteOff(note, volume) ==
  /\ rb.pc = "loop"
  /\ rb' = RbDone(legato_portamento(RbNoteOffCall(RbBegin(rb), note), note),
                  "note_off")
  /\ UNCHANGED notRb

\* Performance.mod_wheel, with the wheel's target cc_red.
RbModWheel(value) ==
  /\ rb.pc = "loop"
  /\ rb' = RbDone(CcRed(RbBegin(rb), MOD_WHEEL, value), "mod_wheel")
  /\ UNCHANGED notRb

RbExpression(value) ==
  /\ rb.pc = "loop"
  /\ rb' = RbDone(RbExpressionCall(RbBegin(rb), value, "none"), "expression")
  /\ sl' = SlewAfter(sl, rb')
  /\ UNCHANGED notRedBlue

RbSustain(value) ==
  /\ rb.pc = "loop"
  /\ LET p1 == damper_portamento(RbBegin(rb), value)
         p2 == IF DamperPassesSustain(p1)
                 THEN CcBoth(p1, SUSTAIN_PEDAL, value)
                 ELSE p1
     IN rb' = RbDone(p2, "sustain")
  /\ UNCHANGED notRb

RbAllNotesOff(value) ==
  /\ rb.pc = "loop"
  /\ rb' = RbDone(CcBoth(RbBegin(rb), ALL_NOTES_OFF, value), "all_notes_off")
  /\ UNCHANGED notRb

\* PITCH_BEND: performance.both(PITCH_BEND, msg[1], msg[2])
RbPitchBend(msb, lsb) ==
  /\ rb.pc = "loop"
  /\ rb' = RbDone(Both(RbBegin(rb), PITCH_BEND, msb, lsb), "bend")
  /\ UNCHANGED notRb

\* POLY_AFTERTOUCH: Performance.at is `pass`.
RbAftertouch(note, value) ==
  /\ rb.pc = "loop"
  /\ rb' = RbDone(RbBegin(rb), "at")
  /\ UNCHANGED notRb

\* CLOCK: performance.clock()
RbClock ==
  /\ rb.pc = "loop"
  /\ rb' = RbDone(RbClockCall(RbBegin(rb)), "clock")
  /\ UNCHANGED notRb

\* The slew generator's task calls the callback with the value it has
\* stepped to: _expression_cb(current_value), which does not await.
RbSlewCallback(p, g) ==
  ExpressionCb(p, RoundHalfEven(g.called[1], g.scale))

\* The task wakes in its waiting loop and finds a request: it takes it,
\* calls the callback with the first step, finds the slot empty and
\* sleeps.
RbTaskWake ==
  /\ sl.pc = "wait"
  /\ sl.new_value # <<>>
  /\ LET g == TakeAndCall(sl)
     IN /\ sl' = [g EXCEPT !.pc = "sleeping"]
        /\ rb' = RbDone(RbSlewCallback(RbBegin(rb), g), "slew")
  /\ UNCHANGED notRedBlue

\* The task's sleep is over. After the last step the for loop ends; else
\* the next step is called back. A request that came during the sleep
\* ends the for loop after that call, and the task takes it and calls the
\* callback again, with the first step towards it, before it sleeps.
RbTaskAfterSleep ==
  /\ sl.pc = "sleeping"
  /\ IF sl.calls = sl.steps
       THEN LET g == LeaveLoop(sl)
            IN IF g.pc = "wait"
                 THEN /\ sl' = g
                      /\ rb' = RbDone(RbBegin(rb), "slew")
                 ELSE /\ sl' = [g EXCEPT !.pc = "sleeping"]
                      /\ rb' = RbDone(RbSlewCallback(RbBegin(rb), g), "slew")
       ELSE LET g1 == Counted([sl EXCEPT !.current_value = @ + sl.step,
                                         !.called = <<sl.current_value + sl.step>>,
                                         !.calls = @ + 1])
                p1 == RbSlewCallback(RbBegin(rb), g1)
            IN IF g1.new_value = <<>>
                 THEN /\ sl' = g1
                      /\ rb' = RbDone(p1, "slew")
                 ELSE LET g2 == LeaveLoop(g1)
                      IN /\ sl' = [g2 EXCEPT !.pc = "sleeping"]
                         /\ rb' = RbDone(RbSlewCallback(p1, g2), "slew")
  /\ UNCHANGED notRedBlue

RbInitOver(modes, clocks) ==
  /\ voices = [i \in Voices |-> NewVoice]
  /\ voices_lru = Range(Polyphony)
  /\ sustain_level = 0
  /\ released_on_sustain = {}
  /\ stream = [pc |-> "first", id_voices |-> "none", chain |-> "current",
               want_frames |-> 0, out_len |-> MAX_BUFFER, short |-> 0]
  /\ trig_order = Range(Polyphony)
  /\ last = [op |-> "init", did |-> "built"]
  /\ ctl = CtlIdle
  /\ rnd = RndIdle
  /\ obs = NoObs
  /\ polyphony = Polyphony
  /\ panning = Panning(Polyphony)
  /\ out_sample = NoSample
  /\ ir = NoPerformance
  /\ \E portamento \in modes, pass_clock \in clocks :
       rb = NewRedBlue(portamento, TRUE, pass_clock)
  /\ sl = RbNewSlew
  /\ mq = NoQueue

RbInit == RbInitOver(RbPortamentoModes, BOOLEAN)

RbNext ==
  \/ RbConsumerStart
  \/ RbStart
  \/ RbStop
  \/ \E note \in RbKeys, volume \in RbVolumes : RbNoteOn(note, volume)
  \/ \E note \in RbKeys, volume \in RbVolumes : RbNoteOff(note, volume)
  \/ \E value \in RbExpressionValues : RbModWheel(value)
  \/ \E value \in RbExpressionValues : RbExpression(value)
  \/ \E value \in RbValues : RbSustain(value)
  \/ \E value \in RbExpressionValues : RbAllNotesOff(value)
  \/ \E b \in RbBends : RbPitchBend(b[1], b[2])
  \/ \E a \in RbAftertouches : RbAftertouch(a[1], a[2])
  \/ RbClock

\* The consumer working through the messages of its queue: the slew
\* generator's task, which runs when the consumer waits, is in ExprSpec.
RbSpec == RbInit /\ [][RbNext]_vars

\* The expression pedal and accented notes, with the slew generator's
\* task: a handler that may call update() runs while the generator has
\* requests left. The task is created by Performance.__post_init__, not in
\* async_main's TaskGroup: it goes on stepping and sending when the
\* consumer has died (legato portamento, the same key struck twice).
ExprKeys == {60}

ExprInit == RbInitOver({"legato", "false"}, {FALSE})

MayUpdate ==
  sl.taken + (IF sl.new_value = <<>> THEN 1 ELSE 0) <= MaxRequests

ExprNext ==
  \/ RbConsumerStart
  \/ \E note \in ExprKeys, volume \in RbVolumes :
       MayUpdate /\ RbNoteOn(note, volume)
  \/ \E note \in ExprKeys, volume \in RbVolumes : RbNoteOff(note, volume)
  \/ \E value \in RbExpressionValues : MayUpdate /\ RbExpression(value)
  \/ RbTaskWake
  \/ RbTaskAfterSleep

ExprSpec == ExprInit /\ [][ExprNext]_vars

\* Duophonic playing on three keys, without accents and controllers.
DuoKeys == {A0, Bb0, 60, 64, 67}

DuoVolumes == {50}

DuoPortamentoModes == {"sustain", "false"}

DuoInit == RbInitOver(DuoPortamentoModes, {FALSE})

DuoNext ==
  \/ RbConsumerStart
  \/ RbStop
  \/ \E note \in DuoKeys, volume \in DuoVolumes : RbNoteOn(note, volume)
  \/ \E note \in DuoKeys, volume \in DuoVolumes : RbNoteOff(note, volume)
  \/ \E value \in RbValues : RbSustain(value)

DuoSpec == DuoInit /\ [][DuoNext]_vars

(* ---------------------------------------------------------------- claims *)

\* The LRU positions whose voices satisfy is_silent() / is_released().
SilentPositions ==
  {i \in 1 .. Len(voices_lru) : VoiceIsSilent(voices[voices_lru[i]])}

ReleasedPositions ==
  {i \in 1 .. Len(voices_lru) : VoiceIsReleased(voices[voices_lru[i]])}

Least(S) == CHOOSE i \in S : \A j \in S : i <= j

\* A voice that sounds a note which no note_off has released.
Sounding(v) == ~VoiceIsSilent(v) /\ ~VoiceIsReleased(v)

\* The voice at the back of the LRU order, the one triggered last.
BackVoice == voices[voices_lru[Len(voices_lru)]]

\* C1: after any sequence of note_on, note_off, sustain and all_notes_off
\* calls (and render calls), _voices_lru is a permutation of the voice
\* indexes: it has polyphony entries and every index is one of them.
C1_LruIsPermutation ==
  /\ Len(voices_lru) = Polyphony
  /\ {voices_lru[i] : i \in 1 .. Len(voices_lru)} = Voices

\* C1, witness: a note_on has reordered the LRU list.
C1_Witness ==
  /\ last.op = "note_on"
  /\ voices_lru # Range(Polyphony)
  /\ C1_LruIsPermutation

\* C2: no two voices of the pool are at the same time triggered with, and
\* not yet released from, the same pitch.
C2_OneVoicePerPitch ==
  \A i, j \in Voices :
    (i # j /\ voices[i].last_pitch_played # 0)
      => voices[i].last_pitch_played # voices[j].last_pitch_played

\* C3: note_on takes the first silent voice of the LRU order; if none is
\* silent, the first released one; if none is released either, the front.
\* The index taken moves to the back of the order, that voice alone gets
\* note_on with velocity / 127, and a sounding voice is taken only when no
\* voice is silent or released. (A note without a frequency changes
\* nothing.)
C3_NoteOnChoosesVoice ==
  [][last'.op = "note_on" =>
       \/ UNCHANGED <<voices, voices_lru>>
       \/ LET pos == IF SilentPositions # {} THEN Least(SilentPositions)
                     ELSE IF ReleasedPositions # {}
                            THEN Least(ReleasedPositions)
                            ELSE 1
              taken == voices_lru[pos]
          IN /\ voices_lru' =
                  Append(SelectSeq(voices_lru, LAMBDA u : u # taken), taken)
             /\ \E note \in Notes, velocity \in Velocities :
                  /\ HasFreq(note)
                  /\ voices' = [voices EXCEPT ![taken] =
                       VoiceNoteOn(@, note_to_freq[note], velocity)]
                  /\ voices'[taken].op1.current_velocity = velocity
             /\ Sounding(voices[taken]) =>
                  \A u \in Voices : Sounding(voices[u])
  ]_vars

\* C3, witness: note_on has just taken a voice that was released and still
\* decaying (its envelope is in release, with the reset pending), although
\* the voice at the LRU front was sounding.
C3_Witness ==
  /\ last = [op |-> "note_on", did |-> "took_released"]
  /\ BackVoice.op1.reset
  /\ BackVoice.op1.envelope.stage = "Release"
  /\ BackVoice.last_pitch_played # 0
  /\ Sounding(voices[voices_lru[1]])

\* C4: when every voice is sounding (none silent, none released), note_on
\* steals the voice whose latest note_on is the oldest, and no other voice
\* changes; so successive steals take the voices in the order in which
\* they were last triggered.
C4_StealsOldestTriggered ==
  [][(last'.op = "note_on" /\ voices' # voices
        /\ \A u \in Voices : Sounding(voices[u]))
       => /\ voices'[Head(trig_order)] # voices[Head(trig_order)]
          /\ voices'[Head(trig_order)].op1.reset
          /\ \A u \in Voices :
               u # Head(trig_order) => voices'[u] = voices[u]
  ]_vars

\* C4, witness: with two voices, after note_on(60), note_on(64) and
\* note_on(67) the voice triggered first holds note 67 (it has just been
\* retriggered) and the other one still holds note 64.
C4_Witness ==
  /\ last = [op |-> "note_on", did |-> "stole"]
  /\ trig_order = <<2, 1>> \o [i \in 1 .. (Polyphony - 2) |-> i + 2]
  /\ voices[1].last_pitch_played = note_to_freq[67]
  /\ voices[1].op1.reset
  /\ voices[2].last_pitch_played = note_to_freq[64]
  /\ \A u \in Voices : u > 2 => Sounding(voices[u])

\* C5: when a note is retriggered (note_on, and note_on again before any
\* note_off, so that the voice triggered last holds a pitch that an
\* earlier voice still holds), the first note_off for it does not release
\* the new instance: the voice triggered last keeps the pitch.
C5_FirstNoteOffSparesRetrigger ==
  [][\A note \in Notes, velocity \in Velocities :
       (/\ HasFreq(note)
        /\ last.op = "note_on"
        /\ BackVoice.last_pitch_played = note_to_freq[note]
        /\ note_to_freq[note] \notin released_on_sustain
        /\ \E u \in Voices :
             /\ u # voices_lru[Len(voices_lru)]
             /\ voices[u].last_pitch_played = note_to_freq[note]
        /\ NoteOff(note, velocity))
       => voices'[voices_lru[Len(voices_lru)]].last_pitch_played
            = note_to_freq[note]
  ]_vars

\* A voice as note_off leaves it: no pitch, every envelope in release.
JustReleased(v) ==
  /\ v.last_pitch_played = 0
  /\ \A env \in {v.op1.envelope, v.op2.envelope, v.op3.envelope} :
       env = [stage |-> "Release", samples_in_stage |-> 0]

\* C6: while the stored sustain level is > 32, note_off changes no voice
\* and at most adds a pitch to the deferred-release set; a sustain(0) that
\* follows releases exactly the voices whose pitch is in that set, leaves
\* every other voice as it is, and empties the set.
C6_SustainDefersNoteOff ==
  [][/\ (last'.op = "note_off" /\ sustain_level > SustainThreshold)
          => /\ voices' = voices
             /\ released_on_sustain \subseteq released_on_sustain'
             /\ released_on_sustain' \subseteq
                  released_on_sustain
                    \cup {note_to_freq[n] : n \in {m \in Notes : HasFreq(m)}}
             /\ Cardinality(released_on_sustain' \ released_on_sustain) <= 1
     /\ (last'.op = "sustain" /\ sustain_level > SustainThreshold
           /\ sustain_level' = 0)
          => /\ released_on_sustain' = {}
             /\ \A u \in Voices :
                  IF voices[u].last_pitch_played \in released_on_sustain
                    THEN /\ JustReleased(voices'[u])
                         /\ voices'[u].op1.pitch = voices[u].op1.pitch
                    ELSE voices'[u] = voices[u]
  ]_vars

\* C6, witness: sustain(0) has just released a voice whose note_off was
\* deferred, while another voice goes on sounding its note.
C6_Witness ==
  /\ last = [op |-> "sustain", did |-> "flushed"]
  /\ sustain_level = 0
  /\ released_on_sustain = {}
  /\ \E u, w \in Voices :
       /\ JustReleased(voices[u])
       /\ ~VoiceIsSilent(voices[u])
       /\ Sounding(voices[w])
       /\ voices[w].op1.envelope.stage = "Sustain"

\* C7: whenever the stored sustain level is <= 32, no pitch is left waiting
\* in the deferred-release set (a sustain call that takes the level from
\* above 32 to 32 or less has flushed and cleared the set).
C7_NoDeferredWhenPedalUp ==
  sustain_level <= SustainThreshold => released_on_sustain = {}

\* C8: every send(want_frames) on stereo_out(), for frame counts from 1 to
\* MAX_BUFFER that change from call to call and with any control calls in
\* between, yields 2 * want_frames interleaved samples and leaves the
\* stream in its mixing loop; so does the first call after all_notes_off.
C8_RenderYieldsWantFrames ==
  last.op = "render" =>
    /\ stream.want_frames \in 1 .. MAX_BUFFER
    /\ stream.out_len = 2 * stream.want_frames
    /\ stream.pc = "loop"

\* C8, witness: the first send after all_notes_off found the voices reset,
\* started _stereo_out again and yielded a block of one frame, after a
\* block of another size.
C8_Witness ==
  /\ last = [op |-> "render", did |-> "restarted"]
  /\ stream.want_frames = 1
  /\ stream.out_len = 2
  /\ \E u \in Voices : ~VoiceIsSilent(voices[u])

\* C9: a render call that starts after a reset has completed renders the
\* voices of the current pool, never those of a discarded one: after every
\* send, the chain that was rendered is the one made for self.voices.
C9_RendersCurrentPool ==
  last.op = "render" => stream.chain = "current"

\* What a sample may read of operator k after the note_on calls of
\* RaceNoteOns: the pitch and the velocity of one and the same call.
Written(k, nv) == <<Detune(note_to_freq[nv[1]], RateOf(k)), nv[2]>>

\* C10: the render path never observes a partially applied note_on: what a
\* block reads of an operator, sample after sample, is the pitch and the
\* velocity of one note_on, and the operators of a voice that one block
\* reads all carry the same note_on.
C10_NoTornNoteOn ==
  rnd.voice # 0 =>
    \E nv \in RaceNoteOns \cup {RacePlayed[rnd.voice]} :
      \A k \in 1 .. 3 :
        obs[k].reads \subseteq {Written(k, nv)}

\* C11: a fault raised inside a render call is caught at the render
\* boundary: the call yields a buffer of the requested size and the stream
\* goes on serving render calls; it is never finished by the fault.
C11_RenderFaultKeepsStream ==
  last.op = "render" =>
    /\ stream.pc # "dead"
    /\ stream.out_len = 2 * stream.want_frames

\* The notes played that have no entry in note_to_freq.
Unmapped == {note \in Notes \cup EdgeNotes : note \notin 12 .. 119}

\* C12: note_on and note_off for a note without an entry in note_to_freq
\* change nothing: the LRU order, every voice's last_pitch_played and
\* operators, the sustain level and the deferred-release set stay as they
\* were.
C12_UnmappedNoteIsNoOp ==
  [][(\E note \in Unmapped, velocity \in Velocities :
        NoteOn(note, velocity) \/ NoteOff(note, velocity))
      => UNCHANGED <<voices, voices_lru, sustain_level,
                     released_on_sustain>>]_vars

\* C12, witness: an unmapped note_on was ignored while a voice sounds,
\* another is free, the pedal is down and a release is deferred.
C12_Witness ==
  /\ last = [op |-> "note_on", did |-> "ignored"]
  /\ \E u, w \in Voices : Sounding(voices[u]) /\ VoiceIsSilent(voices[w])
  /\ sustain_level > SustainThreshold
  /\ released_on_sustain # {}

\* C13: a note_off whose pitch differs from a voice's last_pitch_played
\* leaves that voice as it was: no envelope released, last_pitch_played
\* kept. A voice stolen for a new pitch is not cut short by the note_off
\* of the old pitch.
C13_StaleNoteOffIsNoOp ==
  [][\A note \in StealNotes, velocity \in Velocities :
       NoteOff(note, velocity) =>
         \A i \in Voices :
           voices[i].last_pitch_played # note_to_freq[note]
             => voices'[i] = voices[i]]_vars

\* C13, witness: after three notes on two voices, a note_off was broadcast
\* and matched no voice: both go on sounding, unreleased, with the two
\* pitches played last.
C13_Witness ==
  /\ last = [op |-> "note_off", did |-> "broadcast"]
  /\ \A i \in Voices : Sounding(voices[i]) /\ ~voices[i].op1.reset
  /\ {voices[i].last_pitch_played : i \in Voices}
       = {note_to_freq[64], note_to_freq[67]}

\* Every voice of the pool reports is_silent().
AllSilent == \A i \in Voices : VoiceIsSilent(voices[i])

\* C14: all_notes_off leaves a freshly built pool: a list other than the
\* one the mixer recorded, voices other than those of the mixer's chain,
\* every voice silent, the LRU order 0, 1, ..., polyphony - 1, sustain
\* level 0 and no deferred release; and the voices stay silent until the
\* next note_on.
C14_AllNotesOffBuildsFreshPool ==
  [][/\ AllNotesOff =>
          /\ AllSilent'
          /\ voices_lru' = Range(Polyphony)
          /\ sustain_level' = 0
          /\ released_on_sustain' = {}
          /\ stream'.chain = "discarded"
          /\ stream.id_voices = "same" => stream'.id_voices = "other"
     /\ AllSilent /\ last'.op # "note_on" => AllSilent']_vars

\* C14, witness: all_notes_off while the mixer is in its loop over a pool
\* it has rendered.
C14_Witness ==
  /\ last = [op |-> "all_notes_off", did |-> "reset"]
  /\ stream.pc = "loop"
  /\ stream.id_voices = "other"
  /\ AllSilent

\* C15: for every polyphony >= 1 reset_voices succeeds, at construction
\* and later, and assigns one pan value per voice, evenly spaced over
\* [-1, 1]: -1 for the first voice and +1 for the last when there are
\* several, with equal steps in between.
C15_PanningEvenlySpaced ==
  last.op \in {"reset_voices", "all_notes_off"} =>
    /\ last.did \in {"built", "reset"}
    /\ Len(panning) = polyphony
    /\ Len(voices) = polyphony
    /\ \A i \in 1 .. polyphony : panning[i][2] > 0 \/ polyphony = 1
    /\ polyphony > 1 =>
         /\ panning[1][1] = - panning[1][2]
         /\ panning[polyphony][1] = panning[polyphony][2]
         /\ \A i \in 1 .. polyphony - 1 :
              /\ panning[i + 1][2] = panning[i][2]
              /\ (panning[i + 1][1] - panning[i][1]) * (polyphony - 1)
                   = 2 * panning[i][2]

\* The algorithm ids: the four with a routing of their own, and others.
AlgorithmIds == -1 .. 5

\* C16: for every algorithm id, is_silent() is true exactly when the
\* operators that mono_out sums to the voice output under that algorithm
\* are all silent; an operator that only modulates has no say.
C16_SilentIffOutputOpsSilent ==
  \A algo \in AlgorithmIds : \A i \in Voices :
    IsSilentUnder(algo, voices[i])
      <=> \A k \in OutputOps(algo) : OperatorIsSilent(GetOp(voices[i], k))

\* C16, witness: a voice whose op1 has died away while op2 still sounds:
\* silent where op2 only modulates, not silent where op2 is summed.
C16_Witness ==
  \E i \in Voices :
    /\ OperatorIsSilent(voices[i].op1)
    /\ ~OperatorIsSilent(voices[i].op2)
    /\ IsSilentUnder(0, voices[i])
    /\ ~IsSilentUnder(2, voices[i])

\* The ids that have no routing of their own.
OtherAlgorithmIds == AlgorithmIds \ (0 .. 3)

\* Samples of an operator: the ends of the 16-bit range and a small value.
SampleValues == {- INT16_MAXVALUE - 1, 1000, INT16_MAXVALUE}

\* Frame counts past the end of the voice's buffers.
OverFrameCounts == {MAX_BUFFER + 1}

\* C17 as the claim words it: with an algorithm id that has no routing of
\* its own, mono_out does not fail, whatever the frame count asked for: it
\* renders each of the three operators with the zero buffer and returns.
C17_UnknownAlgorithmNeverFails ==
  \A algo \in OtherAlgorithmIds :
    \A want_frames \in VoiceFrameCounts \cup OverFrameCounts :
      \A i \in Voices :
        LET v == voices[i]
            out == VoiceMonoOutUnder(algo, v, want_frames)
            mod_len == Slice(MAX_BUFFER, want_frames)
        IN /\ out.op1 = OperatorMonoOut(v.op1, Adr1, mod_len)
           /\ out.op2 = OperatorMonoOut(v.op2, Adr2, mod_len)
           /\ out.op3 = OperatorMonoOut(v.op3, Adr3, mod_len)
           /\ ~VoiceMonoOutRaises(algo, want_frames)

\* C17: with an algorithm id that has no routing of its own and a frame
\* count up to MAX_BUFFER, mono_out does not fail: it renders each of the
\* three operators, each with the zero buffer as its modulator, and yields
\* the saturated sum of the three. Past MAX_BUFFER it renders the three
\* operators with MAX_BUFFER zeros each and then raises IndexError in the
\* loop that sums their buffers.
C17_UnknownAlgorithmSumsAll ==
  \A algo \in OtherAlgorithmIds :
    /\ \A k \in 1 .. 3 : ModSource(algo, k) = "zero"
    /\ OutputOps(algo) = {1, 2, 3}
    /\ \A s1, s2, s3 \in SampleValues :
         VoiceSample(algo, s1, s2, s3) = Saturate(s1 + s2 + s3)
    /\ \A want_frames \in VoiceFrameCounts \cup OverFrameCounts :
         /\ VoiceMonoOutRaises(algo, want_frames) <=> want_frames > MAX_BUFFER
         /\ \A i \in Voices :
              LET v == voices[i]
                  out == VoiceMonoOutUnder(algo, v, want_frames)
                  mod_len == Slice(MAX_BUFFER, want_frames)
              IN /\ out.op1 = OperatorMonoOut(v.op1, Adr1, mod_len)
                 /\ out.op2 = OperatorMonoOut(v.op2, Adr2, mod_len)
                 /\ out.op3 = OperatorMonoOut(v.op3, Adr3, mod_len)

\* C17, witness: a render has run while a voice has its three operators
\* in envelope stages that differ, so that rendering each of them shows.
C17_Witness ==
  /\ last.op = "render"
  /\ \E i \in Voices :
       /\ voices[i].op1.envelope # voices[i].op2.envelope
       /\ voices[i].op2.envelope # voices[i].op3.envelope
       /\ ~EnvIsSilent(voices[i].op3.envelope)

\* C18: in midi_consumer a NOTE_ON with velocity 0 does what the NOTE_OFF
\* for the same note does, whatever its release velocity: it calls
\* note_off, never note_on, and leaves the synthesizer in the same state,
\* deferral under the pedal included.
C18_NoteOnZeroIsNoteOff ==
  [][\A note \in MidiNotes :
       MidiConsumer(<<NOTE_ON, note, 0>>) =>
         /\ last'.op = "note_off"
         /\ \A velocity \in {0, 100} :
              MidiConsumer(<<NOTE_OFF, note, velocity>>)]_vars

\* C18, witness: a NOTE_ON with velocity 0 (the only way notes end here)
\* was deferred under the pedal while its voice sounds.
C18_Witness ==
  /\ last = [op |-> "note_off", did |-> "deferred"]
  /\ sustain_level > SustainThreshold
  /\ \E i \in Voices :
       /\ Sounding(voices[i])
       /\ voices[i].last_pitch_played \in released_on_sustain

\* The voices whose sample is not zero.
Active(stereo) == {i \in DOMAIN stereo : stereo[i] # 0}

\* m is x truncated towards zero, for the fraction x = a / b with b > 0.
IsTruncation(m, a, b) ==
  IF a >= 0 THEN b * m <= a /\ a < b * m + b
            ELSE b * m - b < a /\ a <= b * m

\* C19: a mixed sample is the sum over the voices of 1/polyphony times the
\* voice's sample, truncated to an integer; with one active voice it is
\* that voice's sample divided by polyphony, not the sample itself.
C19_MixScalesByPolyphony ==
  out_sample.stereo # <<>> =>
    /\ IsTruncation(out_sample.mixed, SeqSum(out_sample.stereo), polyphony)
    /\ out_sample.mixed \in - INT16_MAXVALUE - 1 .. INT16_MAXVALUE
    /\ \A i \in Active(out_sample.stereo) :
         Active(out_sample.stereo) = {i} =>
           /\ IsTruncation(out_sample.mixed, out_sample.stereo[i], polyphony)
           /\ out_sample.mixed # out_sample.stereo[i]

\* C19, witness: polyphony 4, one voice at full amplitude, the others
\* silent: the mixed sample is 32767 / 4 truncated.
C19_Witness ==
  /\ polyphony = 4
  /\ out_sample.stereo = <<INT16_MAXVALUE, 0, 0, 0>>
  /\ out_sample.mixed = 8191

\* The CC 64 messages among those the last handler call sent.
SustainSent == {i \in 1 .. Len(ir.sent) :
                  ir.sent[i][1] = CONTROL_CHANGE /\ ir.sent[i][2] = SUSTAIN_PEDAL}

\* C20, as stated: with catch-damper enabled no CC 64 message is ever sent
\* to the output port. The consumer's own resets send one.
C20_NoSustainEverSent == ir.catch_damper => SustainSent = {}

\* C20, amended: with catch-damper enabled an incoming CC 64 is never passed
\* on (the pedal handler sends no control change at all); the only CC 64
\* messages sent carry value 0 and come from the resets: silence() at
\* start-up, on STOP and on cancellation, and the pedal-up that follows an
\* incoming ALL_NOTES_OFF or ALL_SOUND_OFF.
C20_PedalNeverPassedOn ==
  ir.catch_damper =>
    /\ \A i \in SustainSent : ir.sent[i][3] = 0
    /\ SustainSent # {} =>
         ir.did \in {"silence", "stop", "cancel", "all_notes_off",
                     "all_sound_off"}
    /\ ir.did = "sustain" =>
         \A i \in 1 .. Len(ir.sent) : ir.sent[i][1] = NOTE_OFF

\* The pedal went down with catch-damper on while a note is held.
C20_Witness ==
  /\ ir.catch_damper
  /\ ir.did = "sustain"
  /\ ir.is_sustain
  /\ ir.notes_down # <<>>

\* The notes iridium counts as sounding: keys down and pedal-sustained.
SeqRange(lst) == {lst[i] : i \in 1 .. Len(lst)}

IrSounding(p) == SeqRange(p.notes_down) \cup SeqRange(p.notes_sustained)

\* The NOTE_OFFs for note among the messages of the last handler call.
NoteOffSent(p, note) ==
  {i \in 1 .. Len(p.sent) : p.sent[i][1] = NOTE_OFF /\ p.sent[i][2] = note}

NoteOnSent(p, note) ==
  {i \in 1 .. Len(p.sent) : p.sent[i][1] = NOTE_ON /\ p.sent[i][2] = note}

\* C21: with catch-damper and the pedal down, while the held note x and the
\* other keys in play fit the polyphony, a note_on or note_off of another
\* key k sends no NOTE_OFF for x and leaves x among the notes held down.
C21_HeldNoteNotCut ==
  [][\A x \in IrNotes, k \in IrNotes, velocity \in IrVelocities :
       (/\ ir.catch_damper
        /\ k # x
        /\ ir.is_sustain
        /\ x \in SeqRange(ir.notes_down)
        /\ Cardinality(IrSounding(ir) \cup {k}) <= IrPolyphony
        /\ IrNoteOn(k, velocity) \/ IrNoteOff(k, velocity))
       => /\ NoteOffSent(ir', x) = {}
          /\ x \in SeqRange(ir'.notes_down)
          /\ Cardinality(IrSounding(ir') \cup {k}) <= IrPolyphony]_vars

\* Note 60 is held with the pedal down and the pedal-sustained 64 has just
\* been played again: its old voice was switched off, 60 was not.
C21_Witness ==
  /\ ir.catch_damper
  /\ ir.is_sustain
  /\ ir.did = "note_on"
  /\ ir.notes_down = <<60, 64>>
  /\ ir.notes_sustained = <<>>
  /\ ir.sent = <<<<NOTE_OFF, 64, 0>>, <<NOTE_ON, 64, 100>>>>

\* C22: with catch-damper, a note_on for a note that is held or
\* pedal-sustained sends NOTE_OFF for the note first and NOTE_ON last, and
\* no NOTE_ON is ever sent for a note that is switched on at the receiver
\* (no NOTE_OFF for it and no all-notes-off since its last NOTE_ON).
C22_NoteOffBeforeReplay ==
  /\ [](ir.catch_damper => ~ir.doubled)
  /\ [][\A note \in IrNotes, velocity \in IrVelocities :
          (/\ ir.catch_damper
           /\ note \in IrSounding(ir)
           /\ IrNoteOn(note, velocity))
          => /\ ir'.sent[1] = <<NOTE_OFF, note, 0>>
             /\ ir'.sent[Len(ir'.sent)] = <<NOTE_ON, note, velocity>>
             /\ NoteOnSent(ir', note) = {Len(ir'.sent)}]_vars

\* A key that is still down was played again: off, then on, and the note
\* was switched on at the receiver before.
C22_Witness ==
  /\ ir.catch_damper
  /\ ~ir.is_sustain
  /\ ir.did = "note_on"
  /\ ir.notes_down = <<64, 60>>
  /\ ir.sent = <<<<NOTE_OFF, 60, 0>>, <<NOTE_ON, 60, 100>>>>
  /\ ir.on = {60, 64}

\* C23: with catch-damper, lifting the pedal sends exactly one NOTE_OFF for
\* each pedal-sustained note, in the order the notes were released, and none
\* for a note whose key is down; afterwards notes_sustained is empty, the
\* keys down are as before and those that sounded still sound.
C23_PedalUpReleasesSustained ==
  [][(ir.catch_damper /\ IrSustain(0))
       => /\ ir'.sent = [i \in 1 .. Len(ir.notes_sustained) |->
                           <<NOTE_OFF, ir.notes_sustained[i], 0>>]
          /\ ir'.notes_sustained = <<>>
          /\ ~ir'.is_sustain
          /\ ir'.notes_down = ir.notes_down
          /\ \A n \in SeqRange(ir.notes_down) :
               /\ NoteOffSent(ir', n) = {}
               /\ n \in ir.on => n \in ir'.on]_vars

\* The pedal went up over two sustained notes while a key is down.
C23_Witness ==
  /\ ir.catch_damper
  /\ ir.did = "sustain"
  /\ ~ir.is_sustain
  /\ Len(ir.sent) = 2
  /\ ir.sent[1] # ir.sent[2]
  /\ ir.notes_down # <<>>
  /\ SeqRange(ir.notes_down) \subseteq ir.on

\* C24: a mod-wheel message sends at most one CC 1 with its value, exactly
\* one when the value differs from the last one sent on, and none when the
\* message before it was a mod-wheel message with the same value; the same
\* for CC 4 and CC 11 together, which both go out as CC 11; no CC 4 is
\* ever sent.
C24_ControllersDeduplicated ==
  /\ [](\A i \in 1 .. Len(ir.sent) :
          ~(ir.sent[i][1] = CONTROL_CHANGE /\ ir.sent[i][2] = FOOT_PEDAL))
  /\ [][\A value \in IrValues :
          /\ IrModWheel(value) =>
               /\ ir'.sent \in {<<>>, <<<<CONTROL_CHANGE, MOD_WHEEL, value>>>>}
               /\ ir.last_mod # value => ir'.sent # <<>>
               /\ ir.inp = <<CONTROL_CHANGE, MOD_WHEEL, value>>
                    => ir'.sent = <<>>
          /\ \A type \in {FOOT_PEDAL, EXPRESSION_PEDAL} :
               IrExpression(type, value) =>
                 /\ ir'.sent \in
                      {<<>>, <<<<CONTROL_CHANGE, EXPRESSION_PEDAL, value>>>>}
                 /\ ir.last_expr # value => ir'.sent # <<>>
                 /\ ir.inp \in {<<CONTROL_CHANGE, FOOT_PEDAL, value>>,
                                <<CONTROL_CHANGE, EXPRESSION_PEDAL, value>>}
                      => ir'.sent = <<>>]_vars

\* A CC 4 repeated the expression value sent on last: nothing went out.
C24_Witness ==
  /\ ir.did = "expression"
  /\ ir.inp = <<CONTROL_CHANGE, FOOT_PEDAL, 64>>
  /\ ir.last_expr = 64
  /\ ir.sent = <<>>

\* The note messages (NOTE_ON, NOTE_OFF) among those redblue sent last.
RbNotesSent(p) ==
  {i \in 1 .. Len(p.sent) : p.sent[i][2] \in {NOTE_ON, NOTE_OFF}}

\* C25: in redblue the keys A0, Bb0 and B0 only select the play mode
\* (regular, duophonic, power chord, each clearing the other flag): their
\* NOTE_ON and NOTE_OFF send no note message to either synthesizer and
\* leave the held-notes map as it was, and the map never holds one of them.
C25_ModeKeysAreNotNotes ==
  /\ [](\A i \in 1 .. Len(rb.notes) : rb.notes[i][1] \notin {A0, Bb0, B0})
  /\ [][\A key \in {A0, Bb0, B0}, volume \in RbVolumes :
          /\ (rb'.did = "note_on" /\ RbNoteOn(key, volume)) =>
               /\ RbNotesSent(rb') = {}
               /\ rb'.notes = rb.notes
               /\ rb'.power_chord = (key = B0)
               /\ rb'.duophon = (key = Bb0)
          /\ (rb'.did = "note_off" /\ RbNoteOff(key, volume)) =>
               /\ RbNotesSent(rb') = {}
               /\ rb'.notes = rb.notes
               /\ rb'.power_chord = rb.power_chord
               /\ rb'.duophon = rb.duophon]_vars

\* Bb0 was hit while a note played in regular mode is held: duophonic mode
\* is on and nothing was sent.
C25_Witness ==
  /\ rb.did = "note_on"
  /\ rb.duophon
  /\ ~rb.power_chord
  /\ rb.notes = <<<<60, "REGULAR">>>>
  /\ rb.sent = <<>>

\* The synthesizers ("RED", "BLUE") the held notes of redblue are on.
HeldModes(p) == {p.notes[i][2] : i \in 1 .. Len(p.notes)}

\* Duophonic playing as the claim takes it: duophonic mode, portamento
\* inactive, every held note started in duophonic mode.
DuoPlaying(p) ==
  /\ p.duophon
  /\ ~p.is_portamento
  /\ p.portamento # "legato"
  /\ HeldModes(p) \subseteq {"RED", "BLUE"}

\* The port a colour plays on.
PortOf(mode) == IF mode = "RED" THEN "red" ELSE "blue"

\* C26, as stated: in duophonic playing two simultaneously held notes are
\* always on different synthesizers. A third key, or a held key struck
\* again, puts two notes on one synthesizer, and they stay there when the
\* other note is released.
C26_TwoHeldNotesOnDifferentSynths ==
  (DuoPlaying(rb) /\ rb.portamento = "false" /\ Len(rb.notes) = 2)
    => rb.notes[1][2] # rb.notes[2][2]

\* C26, amended: in duophonic playing a note_on goes to one synthesizer
\* only: to one that holds no note when there is one, and to the one not
\* used last when both hold notes; so a new note struck while at most one
\* other is held leaves the held notes on different synthesizers.
C26_DuophonicAssignment ==
  [][\A note \in DuoKeys \ {A0, Bb0, B0}, volume \in DuoVolumes :
       (rb'.did = "note_on" /\ DuoPlaying(rb) /\ RbNoteOn(note, volume))
       => LET red_notes == CountMode(rb.notes, "RED")
              blue_notes == CountMode(rb.notes, "BLUE")
              use_channel == rb'.last_color
          IN /\ rb'.sent = <<<<PortOf(use_channel), NOTE_ON, note, volume>>>>
             /\ DictGet(rb'.notes, note, "REGULAR") = use_channel
             /\ (red_notes = 0 \/ blue_notes = 0)
                  => CountMode(rb.notes, use_channel) = 0
             /\ (red_notes > 0 /\ blue_notes > 0)
                  => use_channel # rb.last_color
             /\ (Len(rb.notes) <= 1 /\ ~DictHas(rb.notes, note))
                  => Cardinality(HeldModes(rb')) = Len(rb'.notes)]_vars

\* A third note was struck with both synthesizers busy and Blue used last:
\* it went to Red.
C26_Witness ==
  /\ rb.did = "note_on"
  /\ DuoPlaying(rb)
  /\ rb.notes = <<<<60, "RED">>, <<64, "BLUE">>, <<67, "RED">>>>
  /\ rb.last_color = "RED"
  /\ rb.sent = <<<<"red", NOTE_ON, 67, 50>>>>

\* C27 as the claim words it: after the last update(v) the callback is
\* called with v within `steps` callback calls, that is, when `steps` calls
\* were made since the update, one of them was callback(v).
C27_WithinStepsOfUpdate ==
  (Len(sl.last_update) = 1 /\ sl.since >= Steps) => sl.hit

\* C27: SlewGenerator. update() overwrites the request slot, so when the
\* task takes a request it is the one of the last update() and the earlier
\* ones are never seen; for update(v) the task steps from its current value
\* and its call number `steps` since taking the request is callback(v);
\* counted from update(v) itself that call is at most number `steps` + 1,
\* because an update that comes while the task sleeps between two calls is
\* followed by one more call of the interpolation it interrupts; and once
\* update(v) is the last update, the callback is called with v.
C27_SlewReachesLastUpdate ==
  /\ [][\A request \in SlRequests :
          SlUpdate(request) => sl'.new_value = request]_vars
  /\ [][sl'.taken # sl.taken =>
          /\ sl.new_value = sl.last_update
          /\ sl'.target = Requested(sl.last_update)
          /\ sl'.calls = 1
          /\ Len(sl.last_update) = 1 =>
               /\ sl'.step * Steps = sl'.target - sl.current_value
               /\ sl'.called = <<sl.current_value + sl'.step>>]_vars
  /\ []((sl.pc \in {"called", "sleeping"} /\ sl.calls = Steps)
          => sl.called = <<sl.target>>)
  /\ [](sl.since > Steps => sl.hit)
  /\ \A request \in SlRequests :
       (sl.last_update = request)
         ~> (sl.called = <<Requested(request)>> \/ sl.last_update # request)

\* update(2) came while the task slept between two values of an earlier
\* request; the task made one more call of that interpolation, took the
\* request from there, and its call number `steps` + 1 since the update
\* was callback(2).
C27_Witness ==
  /\ sl.taken = 2
  /\ sl.last_update = <<2>>
  /\ sl.value % Scale # 0
  /\ sl.calls = Steps
  /\ sl.since = Steps + 1
  /\ sl.called = <<2 * Scale>>

\* C28: a render call that finds an operator's reset pending restarts the
\* envelope before it produces the block's samples, once, and clears the
\* flag: after the call the first operator's envelope is the restarted one
\* advanced by the samples of the block.
C28_ResetAppliedBeforeBlock ==
  [][\A i \in Voices, want_frames \in StreamFrameCounts :
       (/\ voices[i].op1.reset
        /\ stream.chain = "current"
        /\ Render(want_frames)
        /\ stream'.pc = "loop"
        /\ last'.did \in {"first", "mixed"})
       => /\ ~voices'[i].op1.reset
          /\ voices'[i].op1.envelope =
               EnvAdvanceN(EnvReset(voices[i].op1.envelope), Adr1,
                           Slice(MAX_BUFFER, want_frames))]_vars



\* Voice i has received note_on: PhaseModulator.note_on(pitch, volume) was
\* called on it and has returned.
Received(i) ==
  /\ voices[i].last_pitch_played # 0
  /\ ~(ctl.at = "write" /\ ctl.voice = i)

\* C29: with the mixer and the MIDI consumer interleaved, a voice that has
\* received note_on (and was not released since; nothing releases a note
\* here, and no envelope decays to silence within these blocks) is never
\* reported silent: the voice that the scan of Synthesizer.note_on takes
\* as a silent one, from what op1.is_silent() and op2.is_silent() returned
\* to it, holds no note.
C29_TriggeredVoiceNeverSilent ==
  [][(/\ ctl.at = "envelope"
      /\ ctl'.at = "write"
      /\ ctl'.took = "silent")
     => ~Received(ctl'.voice)]_vars

\* C30: a pitch whose note_off was deferred by the pedal and that was then
\* pressed again (the last call was the note_on that plays it, so the key
\* is down) is spared by the pedal-up flush: sustain() leaves the voice
\* sounding the new press as it was.
C30_FlushSparesRepressedKey ==
  [][\A note \in EdgeNotes :
       (/\ HasFreq(note)
        /\ last.op = "note_on"
        /\ last.did # "ignored"
        /\ BackVoice.last_pitch_played = note_to_freq[note]
        /\ note_to_freq[note] \in released_on_sustain
        /\ last'.op = "sustain"
        /\ last'.did = "flushed")
       => voices'[voices_lru[Len(voices_lru)]] = BackVoice
  ]_vars


\* C31: what midi_consumer has applied to the Synthesizer is what was handed
\* to midi_callback: once the loop has run every call and the consumer waits
\* on the empty queue again, the applied messages are the handed ones, each
\* once and in arrival order, none dropped, however far the MIDI thread ran
\* ahead of the loop.
C31_AppliedEqualsHanded ==
  (mq.pc = "waiting" /\ mq.ready = <<>>) => mq.applied = mq.handed


\* NOTE_OFF, velocity 0, for each note of lst in turn.
NoteOffs(lst) == [i \in 1 .. Len(lst) |-> <<NOTE_OFF, lst[i], 0>>]

\* C32: with catch-damper, the notes switched on at the receiver are never
\* more than the polyphony; and a note_on sends, after the NOTE_OFF for its
\* own note if that is sounding, NOTE_OFFs for the oldest pedal-sustained
\* notes and, only when no pedal-sustained note is left, for the oldest
\* held ones: as many as it takes to get below the polyphony, no more; then
\* its NOTE_ON.
C32_PolyphonyNeverExceeded ==
  /\ [](ir.catch_damper => Cardinality(ir.on) <= IrPolyphony)
  /\ [][\A k \in IrNotes, velocity \in IrVelocities :
          (ir.catch_damper /\ ir'.did = "note_on" /\ IrNoteOn(k, velocity))
          => LET S == PopFirst(ir.notes_sustained, k)
                 D == PopFirst(ir.notes_down, k)
                 own == IF k \in IrSounding(ir)
                          THEN <<<<NOTE_OFF, k, 0>>>> ELSE <<>>
             IN \E a \in 0 .. Len(S), b \in 0 .. Len(D) :
                  /\ b > 0 => a = Len(S)
                  /\ (Len(S) - a) + (Len(D) - b) < IrPolyphony
                  /\ a + b > 0
                       => (Len(S) - a) + (Len(D) - b) = IrPolyphony - 1
                  /\ ir'.sent = own \o NoteOffs(SubSeq(S, 1, a))
                                    \o NoteOffs(SubSeq(D, 1, b))
                                    \o <<<<NOTE_ON, k, velocity>>>>
                  /\ ir'.notes_sustained = SubSeq(S, a + 1, Len(S))
                  /\ ir'.notes_down =
                       Append(SubSeq(D, b + 1, Len(D)), k)]_vars

\* A third note was played over a held one and a pedal-sustained one: the
\* pedal-sustained note was switched off, the older held note was kept, and
\* the receiver sounds as many notes as the polyphony allows.
C32_Witness ==
  /\ ir.catch_damper
  /\ ir.did = "note_on"
  /\ ir.is_sustain
  /\ ir.sent = <<<<NOTE_OFF, 64, 0>>, <<NOTE_ON, 67, 100>>>>
  /\ ir.notes_down = <<60, 67>>
  /\ ir.on = {60, 67}
  /\ Cardinality(ir.on) = IrPolyphony


\* Every NOTE_OFF of sent is for a note that is switched on at the receiver
\* when it arrives, given the notes switched on before sent.
RECURSIVE OffsForSounding(_, _)
OffsForSounding(on, sent) ==
  IF sent = <<>>
    THEN TRUE
    ELSE /\ Head(sent)[1] = NOTE_OFF => Head(sent)[2] \in on
         /\ OffsForSounding(OnAfter(on, Head(sent)), Tail(sent))

\* C33: with catch-damper, while notes_down and notes_sustained hold only
\* notes that are switched on at the receiver, a note_on, note_off or pedal
\* message sends NOTE_OFF only for notes that are switched on when it
\* arrives, and the two lists still hold only notes that are switched on: a
\* NOTE_OFF for a note that is not sounding leaves no trace, pedal down or
\* up.
C33_NoSpuriousNoteOff ==
  [][(/\ ir.catch_damper
      /\ IrSounding(ir) \subseteq ir.on
      /\ ir'.did \in {"note_on", "note_off", "sustain"}
      /\ \/ \E k \in IrNotes, velocity \in IrVelocities :
              IrNoteOn(k, velocity) \/ IrNoteOff(k, velocity)
         \/ \E value \in IrValues : IrSustain(value))
     => /\ OffsForSounding(ir.on, ir'.sent)
        /\ IrSounding(ir') \subseteq ir'.on]_vars

====
